---- MODULE Spec2Model ----
(***************************************************************************)
(* GoldWen matching service: the store (users, personality responses,      *)
(* user choices, daily selections, compatibility cache), the clock, and    *)
(* the request handlers of app/api/v1/endpoints/matching.py together with  *)
(* MatchingService (app/services/matching_service.py).                     *)
(*                                                                         *)
(* Time is counted in clock units; a UTC day has UnitsPerDay units and     *)
(* 12:00 is the unit NoonOffset into the day.  A sequential request is one *)
(* action (the handler runs to its commit); the concurrent specifications  *)
(* split a handler at its store statements, each statement reading the     *)
(* committed store (READ COMMITTED), the writes landing at db.commit().    *)
(***************************************************************************)
EXTENDS Integers, Sequences, FiniteSets, TLC

VARIABLES
    users,        \* table users: id -> [age, gender, location_latitude, location_longitude,
                  \*   is_premium, is_active]
    responses,    \* table personality_responses: user id -> response values ordered by question_id
    choices,      \* table user_choices: set of rows
    selections,   \* table daily_selections: set of rows
    cache,        \* table compatibility_cache: set of rows
    now,          \* datetime.utcnow(), in clock units
    procs,        \* in-flight requests of the concurrent specifications
    resp,         \* the response of the last completed request, and when it was sent
    okToday,      \* per user: recordChoice calls answered 200 during the current UTC day
    shown,        \* per user: the list the day's first GET /daily-selection returned
                  \* since the last forced regeneration, with its day
    generated,    \* per user: the list the last generation returned, with its day
    presented     \* per user: <<candidate, time>> of every candidate a generated list held

vars == <<users, responses, choices, selections, cache, now, procs, resp, okToday,
          shown, generated, presented>>

None == [none |-> TRUE]

----------------------------------------------------------------------------
(* Bounds of the model *)

UnitsPerDay == 2        \* clock units per UTC day
MaxNowChoice == 3       \* last clock unit of the choice specifications
MaxChoiceRows == 4      \* rows of user_choices
MaxNowSel == 3         \* last clock unit of the selection specifications

(* Program constants *)

PremiumChoices == 3
StandardChoices == 1

----------------------------------------------------------------------------
(* Clock *)

Day(t) == t \div UnitsPerDay
Midnight(day) == day * UnitsPerDay

----------------------------------------------------------------------------
(* IEEE 754 binary64, as numpy computes the score: a float is               *)
(* <<sign, exponent, mantissa>> with value sign * mantissa * 2^exponent,    *)
(* the mantissa an integer in [2^52, 2^53) written in limbs of LimbBits     *)
(* bits, least significant first; 0.0 is <<0, 0, 0>>.  Every operation      *)
(* rounds to nearest, ties to even.                                         *)

LimbBits == 13
Limbs == 10
MantissaLimbs == 5
MantissaBits == 53
DigitBits == 4

Pow(b, n) == b ^ n

Base == Pow(2, LimbBits)

RECURSIVE CarryFrom(_, _, _)
CarryFrom(raw, i, c) ==
    IF i > Limbs THEN <<>>
    ELSE <<(raw[i] + c) % Base>> \o CarryFrom(raw, i + 1, (raw[i] + c) \div Base)

Carry(raw) == CarryFrom(raw, 1, 0)

Big(n) == Carry([i \in 1..Limbs |-> IF i = 1 THEN n ELSE 0])

BigZero == Big(0)

\* x * 2^k for x below 2^DigitBits
BigShift(x, k) ==
    Carry([i \in 1..Limbs |-> IF i = (k \div LimbBits) + 1 THEN x * Pow(2, k % LimbBits) ELSE 0])

BigPow2(k) ==
    [i \in 1..Limbs |-> IF i = (k \div LimbBits) + 1 THEN Pow(2, k % LimbBits) ELSE 0]

BigAdd(a, b) ==
    IF a = BigZero THEN b
    ELSE IF b = BigZero THEN a
    ELSE Carry([i \in 1..Limbs |-> a[i] + b[i]])

RECURSIVE Conv(_, _, _, _)
Conv(a, b, i, j) == IF j > i THEN 0 ELSE a[j] * b[i - j + 1] + Conv(a, b, i, j + 1)

BigMul(a, b) ==
    IF a = BigZero \/ b = BigZero THEN BigZero
    ELSE Carry([i \in 1..Limbs |-> Conv(a, b, i, 1)])

RECURSIVE LeFrom(_, _, _)
LeFrom(a, b, i) ==
    IF i = 0 THEN TRUE
    ELSE IF a[i] # b[i] THEN a[i] < b[i] ELSE LeFrom(a, b, i - 1)

BigLe(a, b) == LeFrom(a, b, Limbs)

\* the digit of floor(n / d) at bit `bit`, q holding the digits above: the
\* number of x in 1..2^DigitBits - 1 with (q + x * 2^bit) * d <= n
DivDigit(n, d, q, bit) ==
    Cardinality({x \in 1..(Pow(2, DigitBits) - 1) :
                    BigLe(BigMul(BigAdd(q, BigShift(x, bit)), d), n)})

\* floor(n / d), found digit by digit from the digit at bit `bit` down
RECURSIVE DivFrom(_, _, _, _)
DivFrom(n, d, q, bit) ==
    IF bit < 0 THEN q
    ELSE IF DivDigit(n, d, q, bit) = 0 THEN DivFrom(n, d, q, bit - DigitBits)
    ELSE DivFrom(n, d, BigAdd(q, BigShift(DivDigit(n, d, q, bit), bit)), bit - DigitBits)

\* floor(n / d), a number below 2^bits
BigDiv(n, d, bits) ==
    IF n = BigZero THEN BigZero
    ELSE DivFrom(n, d, BigZero, DigitBits * ((bits - 1) \div DigitBits))

\* the digit of floor(sqrt(n)) at bit `bit`, r holding the digits above
SqrtDigit(n, r, bit) ==
    Cardinality({x \in 1..(Pow(2, DigitBits) - 1) :
                    BigLe(BigMul(BigAdd(r, BigShift(x, bit)), BigAdd(r, BigShift(x, bit))), n)})

\* floor(sqrt(n)), found digit by digit from the digit at bit `bit` down
RECURSIVE SqrtFrom(_, _, _)
SqrtFrom(n, r, bit) ==
    IF bit < 0 THEN r
    ELSE IF SqrtDigit(n, r, bit) = 0 THEN SqrtFrom(n, r, bit - DigitBits)
    ELSE SqrtFrom(n, BigAdd(r, BigShift(SqrtDigit(n, r, bit), bit)), bit - DigitBits)

\* floor(sqrt(n)), a number below 2^bits
BigSqrt(n, bits) ==
    IF n = BigZero THEN BigZero
    ELSE SqrtFrom(n, BigZero, DigitBits * ((bits - 1) \div DigitBits))

BigOdd(a) == a[1] % 2 = 1

Twice(a) == BigAdd(a, a)

\* n / d rounded to nearest, ties to even, given q = floor(n / d): an odd q
\* goes up from the half on, an even q above the half only
RoundNearest(n, d, q) ==
    IF BigOdd(q)
    THEN IF BigLe(BigMul(BigAdd(Twice(q), Big(1)), d), Twice(n))
         THEN BigAdd(q, Big(1)) ELSE q
    ELSE IF BigLe(BigMul(BigAdd(Twice(q), Big(1)), d), Twice(n))
            /\ BigMul(BigAdd(Twice(q), Big(1)), d) # Twice(n)
         THEN BigAdd(q, Big(1)) ELSE q

Wide(m) == [i \in 1..Limbs |-> IF i <= MantissaLimbs THEN m[i] ELSE 0]

Narrow(m) == [i \in 1..MantissaLimbs |-> m[i]]

Normal(sign, e, m) ==
    IF m = BigPow2(MantissaBits)
    THEN <<sign, e + 1, Narrow(BigPow2(MantissaBits - 1))>>
    ELSE <<sign, e, Narrow(m)>>

Zero == <<0, 0, Narrow(BigZero)>>

Abs(i) == IF i < 0 THEN -i ELSE i

Sign(i) == IF i < 0 THEN -1 ELSE IF i = 0 THEN 0 ELSE 1

RECURSIVE Log2(_)
Log2(n) == IF n < 2 THEN 0 ELSE 1 + Log2(n \div 2)

\* float(n) of an integer below 2^13
FloatOfInt(n) ==
    IF n = 0 THEN Zero
    ELSE Normal(Sign(n), Log2(Abs(n)) - (MantissaBits - 1),
                BigMul(Big(Abs(n)), BigPow2(MantissaBits - 1 - Log2(Abs(n)))))

\* sqrt of a positive integer, correctly rounded
FloatSqrt(s) ==
    LET t == Log2(s) \div 2
        n == BigMul(Big(s), BigPow2(2 * (MantissaBits - 1 - t)))
        r == BigSqrt(n, MantissaBits)
        r21 == BigAdd(Twice(r), Big(1))
    IN  Normal(1, t - (MantissaBits - 1),
               IF BigLe(BigMul(r21, r21), Twice(Twice(n))) THEN BigAdd(r, Big(1)) ELSE r)

\* sign * (n / d) * 2^e with n / d in [2^52, 2^53), correctly rounded
Rounded(sign, e, n, d) ==
    Normal(sign, e, RoundNearest(n, d, BigDiv(n, d, MantissaBits)))

\* sign * p * 2^e for the product p of two mantissas
MulRounded(sign, e, p) ==
    IF BigLe(BigPow2(2 * MantissaBits - 1), p)
    THEN Rounded(sign, e + MantissaBits, p, BigPow2(MantissaBits))
    ELSE Rounded(sign, e + MantissaBits - 1, p, BigPow2(MantissaBits - 1))

FloatMul(a, b) ==
    IF a[1] = 0 \/ b[1] = 0 THEN Zero
    ELSE MulRounded(a[1] * b[1], a[2] + b[2], BigMul(Wide(a[3]), Wide(b[3])))

\* least k from k up with n * 2^k >= d * 2^52
RECURSIVE ScaleFor(_, _, _)
ScaleFor(n, d, k) ==
    IF BigLe(BigMul(d, BigPow2(MantissaBits - 1)), BigMul(n, BigPow2(k))) THEN k
    ELSE ScaleFor(n, d, k + 1)

\* integer / float (the float not 0.0)
FloatDiv(i, b) ==
    IF i = 0 THEN Zero
    ELSE LET k == ScaleFor(Big(Abs(i)), Wide(b[3]),
                           2 * (MantissaBits - 1) - Log2(Abs(i)) - 1)
         IN  Rounded(Sign(i) * b[1], (0 - k) - b[2],
                     BigMul(Big(Abs(i)), BigPow2(k)), Wide(b[3]))

\* a < b on floats of the same sign class, by exponent and then mantissa
RECURSIVE MantissaLt(_, _, _)
MantissaLt(a, b, i) ==
    IF i = 0 THEN FALSE
    ELSE IF a[i] # b[i] THEN a[i] < b[i] ELSE MantissaLt(a, b, i - 1)

MagnitudeLt(a, b) ==
    IF a[2] # b[2] THEN a[2] < b[2] ELSE MantissaLt(a[3], b[3], MantissaLimbs)

FloatLt(a, b) ==
    IF a[1] # b[1] THEN a[1] < b[1]
    ELSE IF a[1] = 0 THEN FALSE
    ELSE IF a[1] = 1 THEN MagnitudeLt(a, b)
    ELSE MagnitudeLt(b, a)

FloatGe(a, b) == ~FloatLt(a, b)

One == FloatOfInt(1)

----------------------------------------------------------------------------
(* Store helpers: rows and keys *)

Max(S) == CHOOSE x \in S : \A y \in S : y <= x

\* autoincrement primary key (SQLite rowid: largest id in the table plus one)
NextId(table) == IF table = {} THEN 1 ELSE Max({r.id : r \in table}) + 1

\* Query.first(): None when nothing matches, otherwise one matching row;
\* no ORDER BY is given, so the store picks the row
First(rows) == IF rows = {} THEN {None} ELSE rows

----------------------------------------------------------------------------
(* MatchingService: compatibility score and its cache *)

PERSONALITY_QUESTIONS_COUNT == 10
MAX_DAILY_PROFILES == 5
MIN_DAILY_PROFILES == 3
CacheHours == 24
ChosenDays == 30
SelectionDays == 7
AgeRange == 10
CandidateLimit == 50

\* settings.COMPATIBILITY_THRESHOLD: the float literal 0.6
COMPATIBILITY_THRESHOLD == FloatDiv(6, FloatOfInt(10))

Hours(h) == (h * UnitsPerDay) \div 24
Days(d) == d * UnitsPerDay
NoonOffset == UnitsPerDay \div 2

RECURSIVE Dot(_, _)
Dot(vec1, vec2) ==
    IF vec1 = <<>> THEN 0
    ELSE Head(vec1) * Head(vec2) + Dot(Tail(vec1), Tail(vec2))

\* the <<dot product, squared norm, squared norm>> of the pairs of vectors
\* the populations hold
Tabulated ==
    {<<50, 130, 130>>, <<70, 130, 100>>, <<90, 130, 90>>, <<95, 130, 125>>,
     <<110, 130, 100>>, <<130, 130, 130>>, <<150, 130, 250>>,
     <<50, 10, 250>>, <<50, 250, 10>>, <<250, 250, 250>>, <<13, 13, 13>>,
     <<55, 250, 13>>, <<55, 13, 250>>, <<11, 10, 13>>, <<11, 13, 10>>,
     <<10, 10, 10>>, <<55, 55, 55>>, <<4, 4, 4>>, <<1, 1, 1>>, <<0, 1, 1>>,
     <<3, 3, 3>>, <<-3, 3, 3>>, <<110, 100, 130>>, <<100, 100, 100>>}

\* np.linalg.norm of the vectors the populations hold, evaluated once
NormTable ==
    {<<sq, FloatSqrt(sq)>> : sq \in {p[2] : p \in Tabulated} \cup {p[3] : p \in Tabulated}}

\* np.linalg.norm of a vector whose squares sum to sq
Norm(sq) ==
    IF \E e \in NormTable : e[1] = sq
    THEN (CHOOSE e \in NormTable : e[1] = sq)[2]
    ELSE FloatSqrt(sq)

\* norm1 * norm2 of the pairs of vectors the populations hold, evaluated once
NormProductTable ==
    {<<pair, FloatMul(Norm(pair[1]), Norm(pair[2]))>> :
        pair \in {<<p[2], p[3]>> : p \in Tabulated}}

\* norm1 * norm2 of vectors whose squares sum to sq1 and to sq2
NormProduct(sq1, sq2) ==
    IF \E e \in NormProductTable : e[1] = <<sq1, sq2>>
    THEN (CHOOSE e \in NormProductTable : e[1] = <<sq1, sq2>>)[2]
    ELSE FloatMul(Norm(sq1), Norm(sq2))

\* the dot product divided by the first norm alone
CosineOf_first_norm(dot, sq1, sq2) == FloatDiv(dot, Norm(sq1))

\* dot / (norm1 * norm2) in floats
CosineOf(dot, sq1, sq2) == FloatDiv(dot, NormProduct(sq1, sq2))

\* the scores of the pairs of vectors the populations hold, evaluated once
CosineTable == {<<p, CosineOf(p[1], p[2], p[3])>> : p \in Tabulated}

TabulatedCosine(p) == (CHOOSE e \in CosineTable : e[1] = p)[2]

_cosine_similarity(vec1, vec2) ==
    IF Len(vec1) # Len(vec2) THEN Zero
    ELSE IF Dot(vec1, vec1) = 0 \/ Dot(vec2, vec2) = 0 THEN Zero
    ELSE IF <<Dot(vec1, vec2), Dot(vec1, vec1), Dot(vec2, vec2)>> \in Tabulated
    THEN TabulatedCosine(<<Dot(vec1, vec2), Dot(vec1, vec1), Dot(vec2, vec2)>>)
    ELSE CosineOf(Dot(vec1, vec2), Dot(vec1, vec1), Dot(vec2, vec2))

\* _get_personality_vector without the test on the number of responses
_get_personality_vector_as_stored(user_id) ==
    IF user_id \notin DOMAIN responses THEN None
    ELSE responses[user_id]

_get_personality_vector(user_id) ==
    IF user_id \notin DOMAIN responses THEN None
    ELSE IF Len(responses[user_id]) # PERSONALITY_QUESTIONS_COUNT THEN None
    ELSE responses[user_id]

\* the pair as the caller gave it
CanonicalPair_as_given(user1_id, user2_id) == <<user1_id, user2_id>>

CanonicalPair(user1_id, user2_id) ==
    IF user1_id > user2_id THEN <<user2_id, user1_id>> ELSE <<user1_id, user2_id>>

\* _get_cached_compatibility with the cutoff itself counted as recent
_get_cached_compatibility_ge(c, user1_id, user2_id, t) ==
    LET pair == CanonicalPair(user1_id, user2_id)
        live == {r \in c : /\ r.user1_id = pair[1]
                           /\ r.user2_id = pair[2]
                           /\ r.calculated_at >= t - Hours(CacheHours)}
    IN  IF live = {} THEN None
        ELSE (CHOOSE r \in live : \A o \in live : r.id <= o.id).compatibility_score

\* the live entry of the pair in cache table c at time t, or None
_get_cached_compatibility(c, user1_id, user2_id, t) ==
    LET pair == CanonicalPair(user1_id, user2_id)
        live == {r \in c : /\ r.user1_id = pair[1]
                           /\ r.user2_id = pair[2]
                           /\ r.calculated_at > t - Hours(CacheHours)}
    IN  IF live = {} THEN None
        ELSE (CHOOSE r \in live : \A o \in live : r.id <= o.id).compatibility_score

\* _cache_compatibility without the delete of the old entry
_cache_compatibility_keeps_old(c, user1_id, user2_id, score, t) ==
    c \cup {[id |-> NextId(c), user1_id |-> CanonicalPair(user1_id, user2_id)[1],
             user2_id |-> CanonicalPair(user1_id, user2_id)[2],
             compatibility_score |-> score, calculated_at |-> t]}

\* cache table c after delete-old, insert-new, commit
_cache_compatibility(c, user1_id, user2_id, score, t) ==
    LET pair == CanonicalPair(user1_id, user2_id)
        kept == {r \in c : ~(r.user1_id = pair[1] /\ r.user2_id = pair[2])}
    IN  kept \cup {[id |-> NextId(kept), user1_id |-> pair[1], user2_id |-> pair[2],
                    compatibility_score |-> score, calculated_at |-> t]}

\* lines 41-44: the score is cached and returned
cached_and_returned(c, user1_id, user2_id, score, t) ==
    [score |-> score, cache |-> _cache_compatibility(c, user1_id, user2_id, score, t)]

\* calculate_compatibility_score with a sliding expiry: a hit stamps the
\* entries of the pair with the time of the call
calculate_compatibility_score_sliding(c, user1_id, user2_id, t) ==
    LET cached_score == _get_cached_compatibility(c, user1_id, user2_id, t)
        user1_responses == _get_personality_vector(user1_id)
        user2_responses == _get_personality_vector(user2_id)
    IN  IF cached_score # None
        THEN [score |-> cached_score,
              cache |-> {IF <<r.user1_id, r.user2_id>> = CanonicalPair(user1_id, user2_id)
                         THEN [r EXCEPT !.calculated_at = t] ELSE r : r \in c}]
        ELSE IF user1_responses = None \/ user2_responses = None
        THEN [score |-> Zero, cache |-> c]
        ELSE cached_and_returned(c, user1_id, user2_id,
                                 _cosine_similarity(user1_responses, user2_responses), t)

\* calculate_compatibility_score scoring a missing vector as a full match
calculate_compatibility_score_missing_is_one(c, user1_id, user2_id, t) ==
    LET cached_score == _get_cached_compatibility(c, user1_id, user2_id, t)
        user1_responses == _get_personality_vector(user1_id)
        user2_responses == _get_personality_vector(user2_id)
    IN  IF cached_score # None THEN [score |-> cached_score, cache |-> c]
        ELSE IF user1_responses = None \/ user2_responses = None
        THEN [score |-> One, cache |-> c]
        ELSE cached_and_returned(c, user1_id, user2_id,
                                 _cosine_similarity(user1_responses, user2_responses), t)

\* [score, cache]: the value returned and the cache table afterwards
calculate_compatibility_score(c, user1_id, user2_id, t) ==
    LET cached_score == _get_cached_compatibility(c, user1_id, user2_id, t)
        user1_responses == _get_personality_vector(user1_id)
        user2_responses == _get_personality_vector(user2_id)
    IN  IF cached_score # None THEN [score |-> cached_score, cache |-> c]
        ELSE IF user1_responses = None \/ user2_responses = None
        THEN [score |-> Zero, cache |-> c]
        ELSE cached_and_returned(c, user1_id, user2_id,
                                 _cosine_similarity(user1_responses, user2_responses), t)

----------------------------------------------------------------------------
(* MatchingService: candidate filter *)

_get_excluded_user_ids(user_id, t) ==
    {user_id}
    \cup {r.chosen_user_id : r \in {x \in choices :
            x.user_id = user_id /\ x.choice_date > t - Days(ChosenDays)}}
    \cup {r.candidate_user_id : r \in {x \in selections :
            x.user_id = user_id /\ x.selection_date > t - Days(SelectionDays)}}

\* a nullable Float column: <<>> is NULL, <<x>> the value x
Null == <<>>

IsNotNone(coordinate) == coordinate # Null

\* Python truth of an Optional[float]: None and 0.0 are false
Truthy(coordinate) == coordinate # Null /\ coordinate[1] # 0

\* EligibleIds without the age range
EligibleIds_any_age(user, excluded_ids) ==
    {id \in DOMAIN users :
        /\ id \notin excluded_ids
        /\ users[id].is_active
        /\ users[id].gender # user.gender
        /\ (Truthy(user.location_latitude) /\ Truthy(user.location_longitude))
             => (IsNotNone(users[id].location_latitude)
                 /\ IsNotNone(users[id].location_longitude))}

EligibleIds(user, excluded_ids) ==
    {id \in DOMAIN users :
        /\ id \notin excluded_ids
        /\ users[id].is_active
        /\ users[id].gender # user.gender
        /\ Abs(users[id].age - user.age) <= AgeRange
        /\ (Truthy(user.location_latitude) /\ Truthy(user.location_longitude))
             => (IsNotNone(users[id].location_latitude)
                 /\ IsNotNone(users[id].location_longitude))}

RECURSIVE Ascending(_)
Ascending(S) ==
    IF S = {} THEN <<>>
    ELSE LET m == CHOOSE x \in S : \A y \in S : x <= y
         IN  <<m>> \o Ascending(S \ {m})

Reverse(seq) == [i \in 1..Len(seq) |-> seq[Len(seq) + 1 - i]]

Take(seq, n) == SubSeq(seq, 1, IF Len(seq) < n THEN Len(seq) ELSE n)

\* query.limit(50).all() carries no ORDER BY: the store decides the order of
\* the rows.  Two orders are drawn: by ascending and by descending id.
_get_potential_candidates(user, excluded_ids) ==
    {Take(order, CandidateLimit) :
        order \in {Ascending(EligibleIds(user, excluded_ids)),
                   Reverse(Ascending(EligibleIds(user, excluded_ids)))}}

----------------------------------------------------------------------------
(* POST /user-choice/{user_id} *)

max_choices(user) == IF user.is_premium THEN PremiumChoices ELSE StandardChoices

\* today_choices over the last 24 hours instead of the calendar day
today_choices_last_24h(user_id, t) ==
    Cardinality({r \in choices :
        r.user_id = user_id /\ r.choice_date > t - Days(1)})

\* today_choices without the date filter
today_choices_any_day(user_id, t) ==
    Cardinality({r \in choices : r.user_id = user_id})

\* rows counted against the quota: chooser's rows dated at or after today's midnight
today_choices(user_id, t) ==
    Cardinality({r \in choices :
        r.user_id = user_id /\ r.choice_date >= Midnight(Day(t))})

reverse_choices(user_id, chosen_user_id) ==
    {r \in choices : r.user_id = chosen_user_id /\ r.chosen_user_id = user_id}

\* commit_choice counting a reverse choice as a match only on the day it was made
commit_choice_same_day(user_id, chosen_user_id, reverse_choice) ==
    LET matched == reverse_choice # None /\ Day(reverse_choice.choice_date) = Day(now)
        user_choice == [id |-> NextId(choices),
                        user_id |-> user_id,
                        chosen_user_id |-> chosen_user_id,
                        choice_date |-> now,
                        is_match |-> matched]
        updated == {IF reverse_choice # None /\ r.id = reverse_choice.id
                    THEN [r EXCEPT !.is_match = matched] ELSE r : r \in choices}
    IN  /\ choices' = updated \cup {user_choice}
        /\ resp' = [op |-> "user_choice", status |-> 200, at |-> now, user_id |-> user_id,
                    chosen_user_id |-> chosen_user_id, id |-> user_choice.id,
                    is_match |-> user_choice.is_match]

\* db.add(reverse_choice); db.add(user_choice); db.commit()
commit_choice(user_id, chosen_user_id, reverse_choice) ==
    LET user_choice == [id |-> NextId(choices),
                        user_id |-> user_id,
                        chosen_user_id |-> chosen_user_id,
                        choice_date |-> now,
                        is_match |-> reverse_choice # None]
        updated == {IF reverse_choice # None /\ r.id = reverse_choice.id
                    THEN [r EXCEPT !.is_match = TRUE] ELSE r : r \in choices}
    IN  /\ choices' = updated \cup {user_choice}
        /\ resp' = [op |-> "user_choice", status |-> 200, at |-> now, user_id |-> user_id,
                    chosen_user_id |-> chosen_user_id, id |-> user_choice.id,
                    is_match |-> user_choice.is_match]

\* limit_exceeded with the comparison off by one
limit_exceeded_gt(user_id, t) == today_choices(user_id, t) > max_choices(users[user_id])

\* today_choices >= max_choices: HTTP 429
limit_exceeded(user_id, t) == today_choices(user_id, t) >= max_choices(users[user_id])

\* make_user_choice without the lookup of the chosen user
make_user_choice_chooser_only(user_id, chosen_user_id) ==
    /\ UNCHANGED <<users, responses, selections, cache, now, procs, shown, generated, presented>>
    /\ IF user_id \notin DOMAIN users
       THEN /\ resp' = [op |-> "user_choice", status |-> 404, at |-> now, user_id |-> user_id,
                        chosen_user_id |-> chosen_user_id]
            /\ UNCHANGED <<choices, okToday>>
       ELSE IF limit_exceeded(user_id, now)
       THEN /\ resp' = [op |-> "user_choice", status |-> 429, at |-> now, user_id |-> user_id,
                        chosen_user_id |-> chosen_user_id]
            /\ UNCHANGED <<choices, okToday>>
       ELSE /\ Cardinality(choices) < MaxChoiceRows
            /\ \E reverse_choice \in First(reverse_choices(user_id, chosen_user_id)) :
                   commit_choice(user_id, chosen_user_id, reverse_choice)
            /\ okToday' = [okToday EXCEPT ![user_id] = @ + 1]

make_user_choice(user_id, chosen_user_id) ==
    /\ UNCHANGED <<users, responses, selections, cache, now, procs, shown, generated, presented>>
    /\ IF user_id \notin DOMAIN users \/ chosen_user_id \notin DOMAIN users
       THEN /\ resp' = [op |-> "user_choice", status |-> 404, at |-> now, user_id |-> user_id,
                        chosen_user_id |-> chosen_user_id]
            /\ UNCHANGED <<choices, okToday>>
       ELSE IF limit_exceeded(user_id, now)
       THEN /\ resp' = [op |-> "user_choice", status |-> 429, at |-> now, user_id |-> user_id,
                        chosen_user_id |-> chosen_user_id]
            /\ UNCHANGED <<choices, okToday>>
       ELSE /\ Cardinality(choices) < MaxChoiceRows
            /\ \E reverse_choice \in First(reverse_choices(user_id, chosen_user_id)) :
                   commit_choice(user_id, chosen_user_id, reverse_choice)
            /\ okToday' = [okToday EXCEPT ![user_id] = @ + 1]

----------------------------------------------------------------------------
(* MatchingService: daily selection *)

\* lines 134-138: [scored, cache]: the candidates at or above the threshold,
\* in the order of the query, and the cache table after the loop
RECURSIVE ScoreCandidates(_, _, _, _)

\* lines 136-138: the candidate is kept when its score reaches the threshold
ScoredAppend(candidate, r, rest) ==
    [scored |-> IF FloatGe(r.score, COMPATIBILITY_THRESHOLD)
                THEN <<[candidate |-> candidate, score |-> r.score]>> \o rest.scored
                ELSE rest.scored,
     cache |-> rest.cache]

\* the candidates after the first, scored on the cache table the first left
ScoreRest(user_id, candidates, r, t) ==
    ScoredAppend(Head(candidates), r,
                 ScoreCandidates(user_id, Tail(candidates), r.cache, t))

ScoreCandidates(user_id, candidates, c, t) ==
    IF candidates = <<>> THEN [scored |-> <<>>, cache |-> c]
    ELSE ScoreRest(user_id, candidates,
                   calculate_compatibility_score(c, user_id, Head(candidates), t), t)

\* list.sort(key=score, reverse=True): stable, equal scores keep their order
RECURSIVE InsertByScore(_, _)
InsertByScore(sorted, x) ==
    IF sorted = <<>> THEN <<x>>
    ELSE IF FloatLt(Head(sorted).score, x.score) THEN <<x>> \o sorted
    ELSE <<Head(sorted)>> \o InsertByScore(Tail(sorted), x)

RECURSIVE SortFrom(_, _)
SortFrom(sorted, rest) ==
    IF rest = <<>> THEN sorted
    ELSE SortFrom(InsertByScore(sorted, Head(rest)), Tail(rest))

\* the scored candidates left in the order of the query
SortByScoreDesc_unsorted(scored) == scored

SortByScoreDesc(scored) == SortFrom(<<>>, scored)

\* lines 142-146
top_candidates(scored_candidates) ==
    LET top == Take(scored_candidates, MAX_DAILY_PROFILES)
    IN  IF Len(top) < MIN_DAILY_PROFILES /\ Len(scored_candidates) >= MIN_DAILY_PROFILES
        THEN Take(scored_candidates, MIN_DAILY_PROFILES)
        ELSE top

\* lines 149-160
selection_candidates(top) ==
    [i \in 1..Len(top) |->
        [user_id |-> top[i].candidate,
         age |-> users[top[i].candidate].age,
         compatibility_score |-> top[i].score,
         rank_position |-> i]]

\* lines 232-241: one DailySelection row per candidate, ids from the sequence
selection_rows(kept, user_id, candidates, selection_date) ==
    {[id |-> NextId(kept) + i - 1,
      user_id |-> user_id,
      candidate_user_id |-> candidates[i].user_id,
      compatibility_score |-> candidates[i].compatibility_score,
      selection_date |-> selection_date,
      rank_position |-> candidates[i].rank_position]
     : i \in 1..Len(candidates)}

\* _store_daily_selection without the delete of today's rows
_store_daily_selection_no_delete(sel, user_id, candidates, t) ==
    sel \cup selection_rows(sel, user_id, candidates, Midnight(Day(t)) + NoonOffset)

\* the daily_selections table after delete-today, insert, commit
_store_daily_selection(sel, user_id, candidates, t) ==
    LET selection_date == Midnight(Day(t)) + NoonOffset
        kept == {r \in sel : ~(r.user_id = user_id
                               /\ Day(r.selection_date) = Day(selection_date))}
    IN  kept \cup selection_rows(kept, user_id, candidates, selection_date)

\* [candidates, selections, cache]: the list returned and both tables
\* afterwards, `candidates` being the rows of _get_potential_candidates
\* lines 140-165: the scored candidates s are ranked, cut, stored and returned
ranked_and_stored(user_id, s, t) ==
    LET list == selection_candidates(top_candidates(SortByScoreDesc(s.scored)))
    IN  [candidates |-> list,
         selections |-> _store_daily_selection(selections, user_id, list, t),
         cache |-> s.cache]

generate_daily_selection(user_id, candidates, t) ==
    IF user_id \notin DOMAIN users
    THEN [candidates |-> <<>>, selections |-> selections, cache |-> cache]
    ELSE ranked_and_stored(user_id, ScoreCandidates(user_id, candidates, cache, t), t)

today_selections(user_id, t) ==
    {r \in selections : r.user_id = user_id /\ Day(r.selection_date) = Day(t)}

\* ORDER BY rank_position: every order of the rows with ranks non-decreasing
RECURSIVE OrderedByRank(_)
OrderedByRank(rows) ==
    IF rows = {} THEN {<<>>}
    ELSE LET firsts == {r \in rows : \A o \in rows : r.rank_position <= o.rank_position}
         IN  UNION {{<<r>> \o rest : rest \in OrderedByRank(rows \ {r})} : r \in firsts}

\* lines 264-282: the stored rows as candidates, rows of missing users skipped
RECURSIVE stored_candidates(_)
stored_candidates(rows) ==
    IF rows = <<>> THEN <<>>
    ELSE IF Head(rows).candidate_user_id \in DOMAIN users
    THEN <<[user_id |-> Head(rows).candidate_user_id,
            age |-> users[Head(rows).candidate_user_id].age,
            compatibility_score |-> Head(rows).compatibility_score,
            rank_position |-> Head(rows).rank_position]>>
         \o stored_candidates(Tail(rows))
    ELSE stored_candidates(Tail(rows))

----------------------------------------------------------------------------
(* GET /daily-selection/{user_id} and POST /generate-selection/{user_id} *)

\* the generation of a list for user_id and its response
\* the tables and the response after generation g
respond_generated(op, user_id, g) ==
    /\ selections' = g.selections
    /\ cache' = g.cache
    /\ resp' = [op |-> op, status |-> 200, at |-> now, user_id |-> user_id,
                candidates |-> g.candidates,
                max_choices_allowed |-> max_choices(users[user_id])]
    /\ generated' = [generated EXCEPT ![user_id] =
                        [day |-> Day(now), candidates |-> g.candidates]]
    /\ presented' = [presented EXCEPT ![user_id] =
                        @ \cup {<<g.candidates[i].user_id, now>> :
                                    i \in 1..Len(g.candidates)}]

generate_and_respond(op, user_id) ==
    \E candidates \in _get_potential_candidates(users[user_id],
                                                _get_excluded_user_ids(user_id, now)) :
        respond_generated(op, user_id, generate_daily_selection(user_id, candidates, now))

FirstShown(user_id, list) ==
    IF shown[user_id] # None /\ shown[user_id].day = Day(now)
    THEN shown
    ELSE [shown EXCEPT ![user_id] = [day |-> Day(now), candidates |-> list]]

get_daily_selection(user_id) ==
    /\ UNCHANGED <<users, responses, choices, now, procs, okToday>>
    /\ IF user_id \notin DOMAIN users
       THEN /\ resp' = [op |-> "daily_selection", status |-> 404, at |-> now,
                        user_id |-> user_id]
            /\ UNCHANGED <<selections, cache, shown, generated, presented>>
       ELSE IF today_selections(user_id, now) = {}
       THEN /\ generate_and_respond("daily_selection", user_id)
            /\ shown' = FirstShown(user_id, resp'.candidates)
       ELSE /\ \E rows \in OrderedByRank(today_selections(user_id, now)) :
                 resp' = [op |-> "daily_selection", status |-> 200, at |-> now,
                          user_id |-> user_id,
                          candidates |-> stored_candidates(rows),
                          max_choices_allowed |-> max_choices(users[user_id])]
            /\ shown' = FirstShown(user_id, resp'.candidates)
            /\ UNCHANGED <<selections, cache, generated, presented>>

\* generate_new_selection without the lookup of the user: the service answers
\* an unknown user with an empty list
generate_new_selection_no_lookup(user_id) ==
    /\ UNCHANGED <<users, responses, choices, now, procs, okToday>>
    /\ IF user_id \notin DOMAIN users
       THEN /\ resp' = [op |-> "generate_selection", status |-> 200, at |-> now,
                        user_id |-> user_id, candidates |-> <<>>,
                        max_choices_allowed |-> StandardChoices]
            /\ UNCHANGED <<selections, cache, shown, generated, presented>>
       ELSE /\ generate_and_respond("generate_selection", user_id)
            /\ shown' = [shown EXCEPT ![user_id] = None]

generate_new_selection(user_id) ==
    /\ UNCHANGED <<users, responses, choices, now, procs, okToday>>
    /\ IF user_id \notin DOMAIN users
       THEN /\ resp' = [op |-> "generate_selection", status |-> 404, at |-> now,
                        user_id |-> user_id]
            /\ UNCHANGED <<selections, cache, shown, generated, presented>>
       ELSE /\ generate_and_respond("generate_selection", user_id)
            /\ shown' = [shown EXCEPT ![user_id] = None]

----------------------------------------------------------------------------
(* POST /users/{user_id}/personality *)

\* ORDER BY question_id over the inserted rows (equal ids in insertion order)
RECURSIVE InsertByQuestion(_, _)
InsertByQuestion(sorted, x) ==
    IF sorted = <<>> THEN <<x>>
    ELSE IF x.question_id < Head(sorted).question_id THEN <<x>> \o sorted
    ELSE <<Head(sorted)>> \o InsertByQuestion(Tail(sorted), x)

RECURSIVE SortByQuestion(_, _)
SortByQuestion(sorted, rest) ==
    IF rest = <<>> THEN sorted
    ELSE SortByQuestion(InsertByQuestion(sorted, Head(rest)), Tail(rest))

ValidResponse(r) ==
    /\ 1 <= r.question_id /\ r.question_id <= 10
    /\ 1 <= r.response_value /\ r.response_value <= 5

\* submit_personality_questionnaire with the DELETE of line 74 surviving a
\* rejection inside the loop
submit_personality_questionnaire_delete_kept(user_id, questionnaire) ==
    /\ UNCHANGED <<users, choices, selections, cache, now, procs, okToday, shown, generated, presented>>
    /\ IF user_id \notin DOMAIN users
       THEN /\ resp' = [op |-> "personality", status |-> 404, at |-> now,
                        user_id |-> user_id]
            /\ UNCHANGED responses
       ELSE IF Len(questionnaire) # 10
       THEN /\ resp' = [op |-> "personality", status |-> 400, at |-> now,
                        user_id |-> user_id]
            /\ UNCHANGED responses
       ELSE IF \E i \in 1..Len(questionnaire) : ~ValidResponse(questionnaire[i])
       THEN /\ resp' = [op |-> "personality", status |-> 400, at |-> now,
                        user_id |-> user_id]
            /\ responses' = [responses EXCEPT ![user_id] = <<>>]
       ELSE /\ responses' = [responses EXCEPT ![user_id] =
                  LET rows == SortByQuestion(<<>>, questionnaire)
                  IN  [i \in 1..Len(rows) |-> rows[i].response_value]]
            /\ resp' = [op |-> "personality", status |-> 200, at |-> now,
                        user_id |-> user_id]

submit_personality_questionnaire(user_id, questionnaire) ==
    /\ UNCHANGED <<users, choices, selections, cache, now, procs, okToday, shown, generated, presented>>
    /\ IF user_id \notin DOMAIN users
       THEN /\ resp' = [op |-> "personality", status |-> 404, at |-> now,
                        user_id |-> user_id]
            /\ UNCHANGED responses
       ELSE IF Len(questionnaire) # 10
               \/ \E i \in 1..Len(questionnaire) : ~ValidResponse(questionnaire[i])
       THEN \* HTTP 400 before db.commit(): the session is closed, the delete rolled back
            /\ resp' = [op |-> "personality", status |-> 400, at |-> now,
                        user_id |-> user_id]
            /\ UNCHANGED responses
       ELSE /\ responses' = [responses EXCEPT ![user_id] =
                  LET rows == SortByQuestion(<<>>, questionnaire)
                  IN  [i \in 1..Len(rows) |-> rows[i].response_value]]
            /\ resp' = [op |-> "personality", status |-> 200, at |-> now,
                        user_id |-> user_id]

----------------------------------------------------------------------------
(* PUT /users/{user_id}/premium *)

update_premium_status(user_id, is_premium) ==
    /\ UNCHANGED <<responses, choices, selections, cache, now, procs, okToday, shown,
                   generated, presented>>
    /\ IF user_id \notin DOMAIN users
       THEN /\ resp' = [op |-> "premium", status |-> 404, at |-> now,
                        user_id |-> user_id]
            /\ UNCHANGED users
       ELSE /\ users' = [users EXCEPT ![user_id].is_premium = is_premium]
            /\ resp' = [op |-> "premium", status |-> 200, at |-> now,
                        user_id |-> user_id, is_premium |-> is_premium]

----------------------------------------------------------------------------
(* POST /matching/compatibility-score *)

\* the rows of table c for the unordered pair
cache_entries(c, user1_id, user2_id) ==
    {r \in c : <<r.user1_id, r.user2_id>> = CanonicalPair(user1_id, user2_id)}

\* lines 89-97: the cache table and the response after the service call r;
\* entries_before records the rows of the pair the call found
respond_compatibility(user1_id, user2_id, r) ==
    /\ cache' = r.cache
    /\ resp' = [op |-> "compatibility", status |-> 200, at |-> now,
                user1_id |-> user1_id, user2_id |-> user2_id,
                compatibility_score |-> r.score,
                entries_before |-> cache_entries(cache, user1_id, user2_id)]

calculate_compatibility(user1_id, user2_id) ==
    /\ UNCHANGED <<users, responses, choices, selections, now, procs, okToday, shown,
                   generated, presented>>
    /\ IF user1_id \notin DOMAIN users \/ user2_id \notin DOMAIN users
       THEN /\ resp' = [op |-> "compatibility", status |-> 404, at |-> now,
                        user1_id |-> user1_id, user2_id |-> user2_id]
            /\ UNCHANGED cache
       ELSE respond_compatibility(user1_id, user2_id,
                calculate_compatibility_score(cache, user1_id, user2_id, now))

----------------------------------------------------------------------------
(* POST /matching/matching-candidates *)

DefaultResults == 5
ResultsCap == 10

\* min(request.max_results or 5, 10) for an Optional[int], <<>> being None
\* and <<n>> the value n: None and 0 are false and give 5
max_results_of(max_results) ==
    LET wanted == IF max_results = Null \/ max_results[1] = 0 THEN DefaultResults
                  ELSE max_results[1]
    IN  IF wanted < ResultsCap THEN wanted ELSE ResultsCap

\* Python seq[:n]: the first n items, and for negative n all but the last -n
PrefixSlice(seq, n) ==
    IF n >= 0 THEN Take(seq, n)
    ELSE IF Len(seq) + n <= 0 THEN <<>>
    ELSE SubSeq(seq, 1, Len(seq) + n)

\* lines 221-236: the scored candidates s sorted, cut and ranked; the cache
\* entries written while scoring are committed by _cache_compatibility
respond_candidates(user_id, s, max_results) ==
    /\ cache' = s.cache
    /\ resp' = [op |-> "matching_candidates", status |-> 200, at |-> now,
                user_id |-> user_id, max_results |-> max_results,
                candidates |-> selection_candidates(
                    PrefixSlice(SortByScoreDesc(s.scored), max_results_of(max_results)))]

get_matching_candidates(user_id, exclude_user_ids, max_results) ==
    /\ UNCHANGED <<users, responses, choices, selections, now, procs, okToday, shown,
                   generated, presented>>
    /\ IF user_id \notin DOMAIN users
       THEN /\ resp' = [op |-> "matching_candidates", status |-> 404, at |-> now,
                        user_id |-> user_id]
            /\ UNCHANGED cache
       ELSE \E candidates \in
                _get_potential_candidates(users[user_id],
                    _get_excluded_user_ids(user_id, now) \cup exclude_user_ids) :
               respond_candidates(user_id,
                                  ScoreCandidates(user_id, candidates, cache, now),
                                  max_results)

----------------------------------------------------------------------------
(* DELETE /users/{user_id} *)

\* rows that name the user as their owner: the relationships of User load
\* them at the flush and blank their user_id, a NOT NULL column
owned_rows(user_id) ==
    {r \in selections : r.user_id = user_id} \cup {r \in choices : r.user_id = user_id}

\* rows that name the user through a foreign key no relationship of User covers
referencing_rows(user_id) ==
    {r \in selections : r.candidate_user_id = user_id}
    \cup {r \in choices : r.chosen_user_id = user_id}
    \cup {r \in cache : r.user1_id = user_id \/ r.user2_id = user_id}

\* the outcomes of the commit: the DELETE of the users row is refused by a
\* store that enforces foreign keys and accepted by one that does not
delete_outcomes(user_id) ==
    IF owned_rows(user_id) # {} THEN {500}
    ELSE IF referencing_rows(user_id) # {} THEN {500, 200}
    ELSE {200}

delete_user(user_id) ==
    /\ UNCHANGED <<choices, selections, cache, now, procs, okToday, shown, generated,
                   presented>>
    /\ IF user_id \notin DOMAIN users
       THEN /\ resp' = [op |-> "delete_user", status |-> 404, at |-> now,
                        user_id |-> user_id]
            /\ UNCHANGED <<users, responses>>
       ELSE \E status \in delete_outcomes(user_id) :
               /\ resp' = [op |-> "delete_user", status |-> status, at |-> now,
                           user_id |-> user_id]
               /\ IF status = 200
                  THEN /\ users' = [u \in DOMAIN users \ {user_id} |-> users[u]]
                       /\ responses' = [u \in DOMAIN responses \ {user_id} |->
                                            responses[u]]
                  ELSE UNCHANGED <<users, responses>>

----------------------------------------------------------------------------
(* POST /user-choice/{user_id}, two requests in flight: each request has   *)
(* its own Session; the handler is split at its store statements           *)

Procs == {1, 2}

Idle == [pc |-> "idle"]

\* lines 109-116: both users are looked up
choice_begin(p, user_id, chosen_user_id) ==
    /\ procs[p].pc = "idle"
    /\ procs' = [procs EXCEPT ![p] =
          IF user_id \notin DOMAIN users \/ chosen_user_id \notin DOMAIN users
          THEN [pc |-> "done", op |-> "user_choice", status |-> 404,
                user_id |-> user_id, chosen_user_id |-> chosen_user_id]
          ELSE [pc |-> "check_limit", op |-> "user_choice",
                user_id |-> user_id, chosen_user_id |-> chosen_user_id]]
    /\ UNCHANGED <<users, responses, choices, selections, cache, now, resp, okToday, shown, generated, presented>>

\* lines 119-130: the count query and the limit test
choice_check_limit(p) ==
    /\ procs[p].pc = "check_limit"
    /\ procs' = [procs EXCEPT ![p] =
          IF limit_exceeded(procs[p].user_id, now)
          THEN [pc |-> "done", op |-> "user_choice", status |-> 429,
                user_id |-> procs[p].user_id,
                chosen_user_id |-> procs[p].chosen_user_id,
                today_choices |-> today_choices(procs[p].user_id, now)]
          ELSE [pc |-> "reverse", op |-> "user_choice",
                user_id |-> procs[p].user_id,
                chosen_user_id |-> procs[p].chosen_user_id,
                today_choices |-> today_choices(procs[p].user_id, now)]]
    /\ UNCHANGED <<users, responses, choices, selections, cache, now, resp, okToday, shown, generated, presented>>

\* lines 140-143: the reverse-choice query
choice_query_reverse(p) ==
    /\ procs[p].pc = "reverse"
    /\ \E reverse_choice \in
            First(reverse_choices(procs[p].user_id, procs[p].chosen_user_id)) :
          procs' = [procs EXCEPT ![p] =
              [pc |-> "commit", op |-> "user_choice",
               user_id |-> procs[p].user_id,
               chosen_user_id |-> procs[p].chosen_user_id,
               today_choices |-> procs[p].today_choices,
               reverse_choice |-> reverse_choice]]
    /\ UNCHANGED <<users, responses, choices, selections, cache, now, resp, okToday, shown, generated, presented>>

\* lines 145-160: the flags are set, both rows are flushed and committed
choice_commit(p) ==
    /\ procs[p].pc = "commit"
    /\ Cardinality(choices) < MaxChoiceRows
    /\ commit_choice(procs[p].user_id, procs[p].chosen_user_id, procs[p].reverse_choice)
    /\ okToday' = [okToday EXCEPT ![procs[p].user_id] = @ + 1]
    /\ procs' = [procs EXCEPT ![p] =
          [pc |-> "done", op |-> "user_choice", status |-> 200,
           user_id |-> procs[p].user_id,
           chosen_user_id |-> procs[p].chosen_user_id,
           today_choices |-> procs[p].today_choices,
           id |-> NextId(choices)]]
    /\ UNCHANGED <<users, responses, selections, cache, now, shown, generated, presented>>

\* both requests have been answered; the next pair of requests may arrive
requests_answered ==
    /\ \A p \in Procs : procs[p].pc = "done"
    /\ procs' = [p \in Procs |-> Idle]
    /\ UNCHANGED <<users, responses, choices, selections, cache, now, resp, okToday, shown, generated, presented>>

----------------------------------------------------------------------------
(* GET /daily-selection and POST /generate-selection, two requests in      *)
(* flight: each request has its own Session and MatchingService; the       *)
(* service is split at its store statements, every statement reads the     *)
(* committed tables and the writes of a Session land at its commit         *)

\* the user lookup of the handler, then for GET the query of today's rows
selection_begin(p, op, user_id) ==
    /\ procs[p].pc = "idle"
    /\ IF user_id \notin DOMAIN users
       THEN procs' = [procs EXCEPT ![p] =
                [pc |-> "done", op |-> op, status |-> 404, user_id |-> user_id,
                 generates |-> FALSE]]
       ELSE IF op = "daily_selection" /\ today_selections(user_id, now) # {}
       THEN \E rows \in OrderedByRank(today_selections(user_id, now)) :
                procs' = [procs EXCEPT ![p] =
                    [pc |-> "done", op |-> op, status |-> 200, user_id |-> user_id,
                     generates |-> FALSE, candidates |-> stored_candidates(rows)]]
       ELSE procs' = [procs EXCEPT ![p] =
                [pc |-> "generate", op |-> op, user_id |-> user_id]]
    /\ UNCHANGED <<users, responses, choices, selections, cache, now, resp, okToday,
                   shown, generated, presented>>

\* request p holds the list of generation g; the cache rows are committed
selection_generated(p, g) ==
    /\ cache' = g.cache
    /\ procs' = [procs EXCEPT ![p] =
          [pc |-> "delete", op |-> procs[p].op, user_id |-> procs[p].user_id,
           candidates |-> g.candidates]]

\* generate_daily_selection up to its call of _store_daily_selection; the
\* cache rows are committed by _cache_compatibility inside the loop
selection_generate(p) ==
    /\ procs[p].pc = "generate"
    /\ \E candidates \in _get_potential_candidates(users[procs[p].user_id],
                            _get_excluded_user_ids(procs[p].user_id, now)) :
          selection_generated(p, generate_daily_selection(procs[p].user_id,
                                                          candidates, now))
    /\ UNCHANGED <<users, responses, choices, selections, now, resp, okToday,
                   shown, generated, presented>>

\* selection_delete on a Session that commits every statement at once
selection_delete_committed(p) ==
    /\ procs[p].pc = "delete"
    /\ procs' = [procs EXCEPT ![p] =
          [pc |-> "commit", op |-> procs[p].op, user_id |-> procs[p].user_id,
           candidates |-> procs[p].candidates,
           selection_date |-> Midnight(Day(now)) + NoonOffset,
           deleted |-> {}]]
    /\ selections' = selections \ today_selections(procs[p].user_id, now)
    /\ UNCHANGED <<users, responses, choices, cache, now, resp, okToday,
                   shown, generated, presented>>

\* lines 221-229: today is read and the DELETE runs on the rows committed now
selection_delete(p) ==
    /\ procs[p].pc = "delete"
    /\ procs' = [procs EXCEPT ![p] =
          [pc |-> "commit", op |-> procs[p].op, user_id |-> procs[p].user_id,
           candidates |-> procs[p].candidates,
           selection_date |-> Midnight(Day(now)) + NoonOffset,
           deleted |-> {r.id : r \in today_selections(procs[p].user_id, now)}]]
    /\ UNCHANGED <<users, responses, choices, selections, cache, now, resp, okToday,
                   shown, generated, presented>>

\* lines 232-243: the rows are added and the Session commits
selection_commit(p) ==
    /\ procs[p].pc = "commit"
    /\ LET kept == {r \in selections : r.id \notin procs[p].deleted}
       IN  selections' = kept \cup selection_rows(kept, procs[p].user_id,
                                       procs[p].candidates, procs[p].selection_date)
    /\ procs' = [procs EXCEPT ![p] =
          [pc |-> "done", op |-> procs[p].op, status |-> 200,
           user_id |-> procs[p].user_id, generates |-> TRUE,
           candidates |-> procs[p].candidates,
           selection_date |-> procs[p].selection_date]]
    /\ UNCHANGED <<users, responses, choices, cache, now, resp, okToday,
                   shown, generated, presented>>

\* the request fails before its final commit (an exception of the store or
\* of the service): during the lookups and the scoring loop the cache rows of
\* the candidates scored so far are committed already; after the DELETE the
\* Session is closed with its transaction open, which rolls it back
selection_fail(p) ==
    /\ procs[p].pc \in {"generate", "delete", "commit"}
    /\ IF procs[p].pc = "generate"
       THEN \E candidates \in _get_potential_candidates(users[procs[p].user_id],
                                 _get_excluded_user_ids(procs[p].user_id, now)) :
               \E scored \in 0..Len(candidates) :
                  cache' = ScoreCandidates(procs[p].user_id, Take(candidates, scored),
                                           cache, now).cache
       ELSE UNCHANGED cache
    /\ procs' = [procs EXCEPT ![p] =
          [pc |-> "done", op |-> procs[p].op, status |-> 500,
           user_id |-> procs[p].user_id, generates |-> FALSE,
           failed_at |-> procs[p].pc]]
    /\ UNCHANGED <<users, responses, choices, selections, now, resp, okToday,
                   shown, generated, presented>>

\* the response of request p is sent; the next request may start
selection_answered(p) ==
    /\ procs[p].pc = "done"
    /\ procs' = [procs EXCEPT ![p] = Idle]
    /\ UNCHANGED <<users, responses, choices, selections, cache, now, resp, okToday,
                   shown, generated, presented>>

----------------------------------------------------------------------------
(* POST /matching/compatibility-score, two requests in flight: each        *)
(* request has its own Session and MatchingService; the service is split   *)
(* at its store statements, every statement reads the committed table and  *)
(* the writes of a Session land at its commit                              *)

\* the request is answered without a write
compat_answered(p, user1_id, user2_id, status, score) ==
    procs' = [procs EXCEPT ![p] =
        [pc |-> "done", op |-> "compatibility", status |-> status,
         user1_id |-> user1_id, user2_id |-> user2_id,
         compatibility_score |-> score, wrote |-> FALSE]]

\* the user lookups of the handler, then calculate_compatibility_score up to
\* its call of _cache_compatibility
compat_begin(p, user1_id, user2_id) ==
    /\ procs[p].pc = "idle"
    /\ IF user1_id \notin DOMAIN users \/ user2_id \notin DOMAIN users
       THEN compat_answered(p, user1_id, user2_id, 404, Zero)
       ELSE IF _get_cached_compatibility(cache, user1_id, user2_id, now) # None
       THEN compat_answered(p, user1_id, user2_id, 200,
                            _get_cached_compatibility(cache, user1_id, user2_id, now))
       ELSE IF _get_personality_vector(user1_id) = None
               \/ _get_personality_vector(user2_id) = None
       THEN compat_answered(p, user1_id, user2_id, 200, Zero)
       ELSE procs' = [procs EXCEPT ![p] =
                [pc |-> "delete", op |-> "compatibility",
                 user1_id |-> user1_id, user2_id |-> user2_id,
                 compatibility_score |->
                     _cosine_similarity(_get_personality_vector(user1_id),
                                        _get_personality_vector(user2_id))]]
    /\ UNCHANGED <<users, responses, choices, selections, cache, now, resp, okToday,
                   shown, generated, presented>>

\* lines 101-107: the DELETE runs on the rows of the pair committed now
compat_delete(p) ==
    /\ procs[p].pc = "delete"
    /\ procs' = [procs EXCEPT ![p] =
          [pc |-> "commit", op |-> "compatibility",
           user1_id |-> procs[p].user1_id, user2_id |-> procs[p].user2_id,
           compatibility_score |-> procs[p].compatibility_score,
           deleted |-> {r.id : r \in cache_entries(cache, procs[p].user1_id,
                                                   procs[p].user2_id)}]]
    /\ UNCHANGED <<users, responses, choices, selections, cache, now, resp, okToday,
                   shown, generated, presented>>

\* lines 110-116: the entry is added and the Session commits
compat_commit(p) ==
    /\ procs[p].pc = "commit"
    /\ LET pair == CanonicalPair(procs[p].user1_id, procs[p].user2_id)
           kept == {r \in cache : r.id \notin procs[p].deleted}
       IN  cache' = kept \cup {[id |-> NextId(kept), user1_id |-> pair[1],
                                user2_id |-> pair[2],
                                compatibility_score |-> procs[p].compatibility_score,
                                calculated_at |-> now]}
    /\ procs' = [procs EXCEPT ![p] =
          [pc |-> "done", op |-> "compatibility", status |-> 200,
           user1_id |-> procs[p].user1_id, user2_id |-> procs[p].user2_id,
           compatibility_score |-> procs[p].compatibility_score, wrote |-> TRUE]]
    /\ UNCHANGED <<users, responses, choices, selections, now, resp, okToday,
                   shown, generated, presented>>

----------------------------------------------------------------------------
(* MatchingService._cosine_similarity called on two vectors *)

cosine_call(vec1, vec2) ==
    /\ resp' = [op |-> "cosine", vec1 |-> vec1, vec2 |-> vec2,
                similarity |-> _cosine_similarity(vec1, vec2)]
    /\ UNCHANGED <<users, responses, choices, selections, cache, now, procs, okToday,
                   shown, generated, presented>>

----------------------------------------------------------------------------
(* The clock advances between requests *)

Tick(maxNow, jumps) ==
    /\ \E d \in jumps :
          /\ now + d <= maxNow
          /\ now' = now + d
    /\ okToday' = IF Day(now') # Day(now) THEN [u \in DOMAIN okToday |-> 0] ELSE okToday
    /\ UNCHANGED <<users, responses, choices, selections, cache, procs, resp, shown, generated, presented>>

----------------------------------------------------------------------------
(* Populations: stores that POST /users, PUT /users/{id}/premium and       *)
(* POST /users/{id}/personality build                                      *)

NewUser(age, gender, latitude, longitude, is_premium) ==
    [age |-> age, gender |-> gender,
     location_latitude |-> latitude, location_longitude |-> longitude,
     is_premium |-> is_premium, is_active |-> TRUE]

ChoiceUsers ==
    (1 :> NewUser(29, "female", Null, Null, TRUE)) @@
    (2 :> NewUser(34, "male", Null, Null, FALSE))

UnknownId == 0

InitChoice ==
    /\ users = ChoiceUsers
    /\ responses = [u \in DOMAIN ChoiceUsers |-> <<>>]
    /\ choices = {}
    /\ selections = {}
    /\ cache = {}
    /\ now = 0
    /\ procs = <<>>
    /\ resp = [op |-> "none"]
    /\ okToday = [u \in DOMAIN ChoiceUsers |-> 0]
    /\ shown = [u \in DOMAIN ChoiceUsers |-> None]
    /\ generated = [u \in DOMAIN ChoiceUsers |-> None]
    /\ presented = [u \in DOMAIN ChoiceUsers |-> {}]

NextChoice ==
    \/ \E user_id \in DOMAIN users \cup {UnknownId},
          chosen_user_id \in DOMAIN users \cup {UnknownId} :
            make_user_choice(user_id, chosen_user_id)
    \/ Tick(MaxNowChoice, {1})

SpecChoice == InitChoice /\ [][NextChoice]_vars

InitChoiceConc ==
    /\ users = ChoiceUsers
    /\ responses = [u \in DOMAIN ChoiceUsers |-> <<>>]
    /\ choices = {}
    /\ selections = {}
    /\ cache = {}
    /\ now = 0
    /\ procs = [p \in Procs |-> Idle]
    /\ resp = [op |-> "none"]
    /\ okToday = [u \in DOMAIN ChoiceUsers |-> 0]
    /\ shown = [u \in DOMAIN ChoiceUsers |-> None]
    /\ generated = [u \in DOMAIN ChoiceUsers |-> None]
    /\ presented = [u \in DOMAIN ChoiceUsers |-> {}]

NextChoiceConc ==
    \/ \E p \in Procs : \E user_id \in DOMAIN users \cup {UnknownId},
          chosen_user_id \in DOMAIN users \cup {UnknownId} :
            choice_begin(p, user_id, chosen_user_id)
    \/ \E p \in Procs : choice_check_limit(p)
    \/ \E p \in Procs : choice_query_reverse(p)
    \/ \E p \in Procs : choice_commit(p)
    \/ requests_answered

SpecChoiceConc == InitChoiceConc /\ [][NextChoiceConc]_vars

----------------------------------------------------------------------------
(* The selection population: subject 1 and seven men within the age range *)

Halves(a, b) == <<a, a, a, a, a, b, b, b, b, b>>

Questionnaire(vec) == [i \in 1..Len(vec) |-> [question_id |-> i, response_value |-> vec[i]]]

SelUsers ==
    (1 :> NewUser(29, "female", Null, Null, FALSE)) @@
    (2 :> NewUser(30, "male", Null, Null, FALSE)) @@
    (3 :> NewUser(31, "male", Null, Null, FALSE)) @@
    (4 :> NewUser(32, "male", Null, Null, FALSE)) @@
    (5 :> NewUser(33, "male", Null, Null, FALSE)) @@
    (6 :> NewUser(34, "male", Null, Null, FALSE)) @@
    (7 :> NewUser(35, "male", Null, Null, FALSE)) @@
    (8 :> NewUser(36, "male", Null, Null, FALSE))

SelResponses ==
    (1 :> Halves(5, 1)) @@
    (2 :> Halves(5, 1)) @@
    (3 :> Halves(4, 2)) @@
    (4 :> Halves(3, 3)) @@
    (5 :> Halves(5, 5)) @@
    (6 :> Halves(1, 5)) @@
    (7 :> Halves(2, 4)) @@
    (8 :> Halves(3, 4))

InitSel ==
    /\ users = SelUsers
    /\ responses = SelResponses
    /\ choices = {}
    /\ selections = {}
    /\ cache = {}
    /\ now = 0
    /\ procs = <<>>
    /\ resp = [op |-> "none"]
    /\ okToday = [u \in DOMAIN SelUsers |-> 0]
    /\ shown = [u \in DOMAIN SelUsers |-> None]
    /\ generated = [u \in DOMAIN SelUsers |-> None]
    /\ presented = [u \in DOMAIN SelUsers |-> {}]

NextSel ==
    \/ \E user_id \in {1, UnknownId} : get_daily_selection(user_id)
    \/ \E user_id \in {1, UnknownId} : generate_new_selection(user_id)
    \/ Tick(MaxNowSel, {1})

SpecSel == InitSel /\ [][NextSel]_vars

\* a requester, a candidate with a questionnaire and one who has not answered yet
MaxNowMix == 3

MixUsers ==
    (1 :> NewUser(29, "female", Null, Null, FALSE)) @@
    (2 :> NewUser(30, "male", Null, Null, FALSE)) @@
    (3 :> NewUser(31, "male", Null, Null, FALSE))

MixResponses ==
    (1 :> Halves(5, 1)) @@
    (2 :> Halves(5, 1)) @@
    (3 :> <<>>)

MixQuestionnaires ==
    {Questionnaire(Halves(4, 2)), Questionnaire(<<3, 3, 3, 3, 3>>)}

InitMix ==
    /\ users = MixUsers
    /\ responses = MixResponses
    /\ choices = {}
    /\ selections = {}
    /\ cache = {}
    /\ now = 0
    /\ procs = <<>>
    /\ resp = [op |-> "none"]
    /\ okToday = [u \in DOMAIN MixUsers |-> 0]
    /\ shown = [u \in DOMAIN MixUsers |-> None]
    /\ generated = [u \in DOMAIN MixUsers |-> None]
    /\ presented = [u \in DOMAIN MixUsers |-> {}]

NextMix ==
    \/ \E user_id \in {1, UnknownId} : get_daily_selection(user_id)
    \/ \E user_id \in {1, UnknownId} : generate_new_selection(user_id)
    \/ \E chosen_user_id \in {2, 3} : make_user_choice(1, chosen_user_id)
    \/ \E user_id \in {3, UnknownId}, questionnaire \in MixQuestionnaires :
          submit_personality_questionnaire(user_id, questionnaire)
    \/ Tick(MaxNowMix, {1})

SpecMix == InitMix /\ [][NextMix]_vars

\* the scoring population: answers all 1, all 5, and a 2 followed by nine 1
MaxNowCache == 3

Ones == <<1, 1, 1, 1, 1, 1, 1, 1, 1, 1>>
Fives == <<5, 5, 5, 5, 5, 5, 5, 5, 5, 5>>
TwoOnes == <<2, 1, 1, 1, 1, 1, 1, 1, 1, 1>>

CacheUsers ==
    (1 :> NewUser(29, "female", Null, Null, FALSE)) @@
    (2 :> NewUser(30, "male", Null, Null, FALSE)) @@
    (3 :> NewUser(31, "male", Null, Null, FALSE))

CacheResponses == (1 :> Ones) @@ (2 :> Fives) @@ (3 :> TwoOnes)

\* the request bodies of POST /matching/compatibility-score
CachePairs == {<<1, 2>>, <<2, 1>>, <<2, 3>>, <<3, 2>>, <<2, 2>>,
               <<1, UnknownId>>, <<UnknownId, 2>>}

InitCache ==
    /\ users = CacheUsers
    /\ responses = CacheResponses
    /\ choices = {}
    /\ selections = {}
    /\ cache = {}
    /\ now = 0
    /\ procs = <<>>
    /\ resp = [op |-> "none"]
    /\ okToday = [u \in DOMAIN CacheUsers |-> 0]
    /\ shown = [u \in DOMAIN CacheUsers |-> None]
    /\ generated = [u \in DOMAIN CacheUsers |-> None]
    /\ presented = [u \in DOMAIN CacheUsers |-> {}]

NextCache ==
    \/ \E pair \in CachePairs : calculate_compatibility(pair[1], pair[2])
    \/ \E questionnaire \in {Questionnaire(TwoOnes), Questionnaire(Fives),
                              Questionnaire(<<3, 3, 3, 3, 3>>)} :
          submit_personality_questionnaire(2, questionnaire)
    \/ Tick(MaxNowCache, {1})

SpecCache == InitCache /\ [][NextCache]_vars

\* one candidate at the threshold or above, two below it, one without answers
LowUsers ==
    (1 :> NewUser(29, "female", Null, Null, FALSE)) @@
    (2 :> NewUser(30, "male", Null, Null, FALSE)) @@
    (3 :> NewUser(31, "male", Null, Null, FALSE)) @@
    (4 :> NewUser(32, "male", Null, Null, FALSE)) @@
    (5 :> NewUser(33, "male", Null, Null, FALSE))

LowResponses ==
    (1 :> Halves(5, 1)) @@
    (2 :> Halves(5, 1)) @@
    (3 :> Halves(1, 5)) @@
    (4 :> Halves(1, 5)) @@
    (5 :> <<>>)

InitLow ==
    /\ users = LowUsers
    /\ responses = LowResponses
    /\ choices = {}
    /\ selections = {}
    /\ cache = {}
    /\ now = 0
    /\ procs = <<>>
    /\ resp = [op |-> "none"]
    /\ okToday = [u \in DOMAIN LowUsers |-> 0]
    /\ shown = [u \in DOMAIN LowUsers |-> None]
    /\ generated = [u \in DOMAIN LowUsers |-> None]
    /\ presented = [u \in DOMAIN LowUsers |-> {}]

NextLow ==
    \/ \E user_id \in {1, UnknownId} : get_daily_selection(user_id)
    \/ \E user_id \in {1, UnknownId} : generate_new_selection(user_id)
    \/ Tick(MaxNowSel, {1})

SpecLow == InitLow /\ [][NextLow]_vars

\* the requester and two candidates with questionnaires; accounts are deleted
DeleteResponses == [MixResponses EXCEPT ![3] = Halves(4, 2)]

InitDelete ==
    /\ users = MixUsers
    /\ responses = DeleteResponses
    /\ choices = {}
    /\ selections = {}
    /\ cache = {}
    /\ now = 0
    /\ procs = <<>>
    /\ resp = [op |-> "none"]
    /\ okToday = [u \in DOMAIN MixUsers |-> 0]
    /\ shown = [u \in DOMAIN MixUsers |-> None]
    /\ generated = [u \in DOMAIN MixUsers |-> None]
    /\ presented = [u \in DOMAIN MixUsers |-> {}]

NextDelete ==
    \/ \E user_id \in {1, UnknownId} : get_daily_selection(user_id)
    \/ \E user_id \in {1, UnknownId} : generate_new_selection(user_id)
    \/ \E user_id \in {1, 2, 3} : delete_user(user_id)
    \/ Tick(MaxNowMix, {1})

SpecDelete == InitDelete /\ [][NextDelete]_vars

InitSelConc ==
    /\ users = MixUsers
    /\ responses = [MixResponses EXCEPT ![3] = Halves(4, 2)]
    /\ choices = {}
    /\ selections = {}
    /\ cache = {}
    /\ now = 0
    /\ procs = [p \in Procs |-> Idle]
    /\ resp = [op |-> "none"]
    /\ okToday = [u \in DOMAIN MixUsers |-> 0]
    /\ shown = [u \in DOMAIN MixUsers |-> None]
    /\ generated = [u \in DOMAIN MixUsers |-> None]
    /\ presented = [u \in DOMAIN MixUsers |-> {}]

NextSelConc ==
    \/ \E p \in Procs, user_id \in {1, UnknownId},
          op \in {"daily_selection", "generate_selection"} :
            selection_begin(p, op, user_id)
    \/ \E p \in Procs : selection_generate(p)
    \/ \E p \in Procs : selection_delete(p)
    \/ \E p \in Procs : selection_commit(p)
    \/ requests_answered
    \/ Tick(MaxNowMix, {1})

SpecSelConc == InitSelConc /\ [][NextSelConc]_vars

InitCacheConc ==
    /\ users = CacheUsers
    /\ responses = CacheResponses
    /\ choices = {}
    /\ selections = {}
    /\ cache = {}
    /\ now = 0
    /\ procs = [p \in Procs |-> Idle]
    /\ resp = [op |-> "none"]
    /\ okToday = [u \in DOMAIN CacheUsers |-> 0]
    /\ shown = [u \in DOMAIN CacheUsers |-> None]
    /\ generated = [u \in DOMAIN CacheUsers |-> None]
    /\ presented = [u \in DOMAIN CacheUsers |-> {}]

\* the request bodies of the two requests in flight
CacheConcPairs == {<<1, 2>>, <<2, 1>>, <<1, UnknownId>>}

NextCacheConc ==
    \/ \E p \in Procs, pair \in CacheConcPairs : compat_begin(p, pair[1], pair[2])
    \/ \E p \in Procs : compat_delete(p)
    \/ \E p \in Procs : compat_commit(p)
    \/ requests_answered
    \/ Tick(MaxNowCache, {1})

SpecCacheConc == InitCacheConc /\ [][NextCacheConc]_vars

\* vectors of lengths 1, 2, 3, 5 and 10: equal, proportional, orthogonal,
\* opposite and zero ones among them
CosineVectors ==
    {<<2>>, <<1, 0>>, <<0, 1>>, <<0, 0>>, <<1, 1, 1>>, <<-1, -1, -1>>,
     <<1, 2, 3, 4, 5>>, Ones, Fives, TwoOnes}

InitCosine ==
    /\ users = <<>>
    /\ responses = <<>>
    /\ choices = {}
    /\ selections = {}
    /\ cache = {}
    /\ now = 0
    /\ procs = <<>>
    /\ resp = [op |-> "none"]
    /\ okToday = <<>>
    /\ shown = <<>>
    /\ generated = <<>>
    /\ presented = <<>>

NextCosine == \E vec1 \in CosineVectors, vec2 \in CosineVectors : cosine_call(vec1, vec2)

SpecCosine == InitCosine /\ [][NextCosine]_vars

\* the questionnaire population: user 1 has answered, users 2 and 3 have not
SubmitResponses == (1 :> Ones) @@ (2 :> <<>>) @@ (3 :> <<>>)

\* ten answers all given to question 1
SameQuestion == [i \in 1..10 |-> [question_id |-> 1, response_value |-> 3]]

\* accepted bodies
ValidQuestionnaires ==
    {Questionnaire(Ones), Questionnaire(Fives), Questionnaire(TwoOnes), SameQuestion}

\* rejected bodies: 5 and 11 items, a question_id of 0 or 11, a
\* response_value of 0 or 6, at the start, inside and at the end of the list
InvalidQuestionnaires ==
    {Questionnaire(<<3, 3, 3, 3, 3>>),
     Questionnaire(Ones \o <<1>>),
     [Questionnaire(Fives) EXCEPT ![3].question_id = 0],
     [Questionnaire(Fives) EXCEPT ![10].question_id = 11],
     [Questionnaire(Fives) EXCEPT ![1].response_value = 0],
     [Questionnaire(Fives) EXCEPT ![10].response_value = 6]}

InitSubmit ==
    /\ users = MixUsers
    /\ responses = SubmitResponses
    /\ choices = {}
    /\ selections = {}
    /\ cache = {}
    /\ now = 0
    /\ procs = <<>>
    /\ resp = [op |-> "none"]
    /\ okToday = [u \in DOMAIN MixUsers |-> 0]
    /\ shown = [u \in DOMAIN MixUsers |-> None]
    /\ generated = [u \in DOMAIN MixUsers |-> None]
    /\ presented = [u \in DOMAIN MixUsers |-> {}]

NextSubmit ==
    \E user_id \in DOMAIN users \cup {UnknownId},
       questionnaire \in ValidQuestionnaires \cup InvalidQuestionnaires :
          submit_personality_questionnaire(user_id, questionnaire)

SpecSubmit == InitSubmit /\ [][NextSubmit]_vars

\* the requester and candidate 3 have not answered the questionnaire yet,
\* candidate 2 has
BlankResponses == (1 :> <<>>) @@ (2 :> Halves(5, 1)) @@ (3 :> <<>>)

InitBlank ==
    /\ users = MixUsers
    /\ responses = BlankResponses
    /\ choices = {}
    /\ selections = {}
    /\ cache = {}
    /\ now = 0
    /\ procs = <<>>
    /\ resp = [op |-> "none"]
    /\ okToday = [u \in DOMAIN MixUsers |-> 0]
    /\ shown = [u \in DOMAIN MixUsers |-> None]
    /\ generated = [u \in DOMAIN MixUsers |-> None]
    /\ presented = [u \in DOMAIN MixUsers |-> {}]

NextBlank ==
    \/ \E user_id \in {1, UnknownId} : get_daily_selection(user_id)
    \/ \E user_id \in {1, UnknownId} : generate_new_selection(user_id)
    \/ \E user_id \in {1, 3}, questionnaire \in MixQuestionnaires :
          submit_personality_questionnaire(user_id, questionnaire)
    \/ Tick(MaxNowMix, {1})

SpecBlank == InitBlank /\ [][NextBlank]_vars

\* the ranking population: requester 1, twelve men who reach the threshold
\* (2..7 with the requester's answers, 8..13 close to them) and one who does not
MaxNowRank == 2

RankUsers ==
    [u \in 1..14 |-> IF u = 1 THEN NewUser(30, "female", Null, Null, FALSE)
                     ELSE NewUser(30, "male", Null, Null, FALSE)]

RankResponses ==
    [u \in 1..14 |-> IF u <= 7 THEN Halves(5, 1)
                     ELSE IF u <= 13 THEN Halves(4, 2)
                     ELSE Halves(1, 5)]

\* max_results of the request: absent, 0, negative, below, at and above the cap
MaxResultsValues == {Null, <<0>>, <<-1>>, <<3>>, <<10>>, <<11>>}

ExcludeValues == {{}, {2, 8}}

InitRank ==
    /\ users = RankUsers
    /\ responses = RankResponses
    /\ choices = {}
    /\ selections = {}
    /\ cache = {}
    /\ now = 0
    /\ procs = <<>>
    /\ resp = [op |-> "none"]
    /\ okToday = [u \in DOMAIN RankUsers |-> 0]
    /\ shown = [u \in DOMAIN RankUsers |-> None]
    /\ generated = [u \in DOMAIN RankUsers |-> None]
    /\ presented = [u \in DOMAIN RankUsers |-> {}]

NextRank ==
    \/ \E user_id \in {1, UnknownId}, exclude_user_ids \in ExcludeValues,
          max_results \in MaxResultsValues :
            get_matching_candidates(user_id, exclude_user_ids, max_results)
    \/ Tick(MaxNowRank, {1})

SpecRank == InitRank /\ [][NextRank]_vars

\* the filter population: requester 1 (a woman of 30), men of 30, 40 and 20,
\* a woman of 30 and a man of 41, all with the requester's answers
MaxNowFilter == 28

FilterUsers ==
    (1 :> NewUser(30, "female", Null, Null, FALSE)) @@
    (2 :> NewUser(30, "male", Null, Null, FALSE)) @@
    (3 :> NewUser(30, "female", Null, Null, FALSE)) @@
    (4 :> NewUser(41, "male", Null, Null, FALSE)) @@
    (5 :> NewUser(40, "male", Null, Null, FALSE)) @@
    (6 :> NewUser(20, "male", Null, Null, FALSE))

InitFilter ==
    /\ users = FilterUsers
    /\ responses = [u \in DOMAIN FilterUsers |-> Halves(5, 1)]
    /\ choices = {}
    /\ selections = {}
    /\ cache = {}
    /\ now = 0
    /\ procs = <<>>
    /\ resp = [op |-> "none"]
    /\ okToday = [u \in DOMAIN FilterUsers |-> 0]
    /\ shown = [u \in DOMAIN FilterUsers |-> None]
    /\ generated = [u \in DOMAIN FilterUsers |-> None]
    /\ presented = [u \in DOMAIN FilterUsers |-> {}]

\* the clock jumps by the 7 days of the selection window
NextFilter ==
    \/ get_daily_selection(1)
    \/ generate_new_selection(1)
    \/ \E chosen_user_id \in {2, 4} : make_user_choice(1, chosen_user_id)
    \/ Tick(MaxNowFilter, {Days(SelectionDays)})

SpecFilter == InitFilter /\ [][NextFilter]_vars

\* the coordinates population: women 1 (on the equator: latitude 0.0,
\* longitude 10.0), 2 (48.0, 2.0) and 3 (latitude only) request lists; the
\* men 4 (48.0, 2.0), 5 (no coordinates) and 6 (longitude only) are candidates
MaxNowGeo == 1

GeoUsers ==
    (1 :> NewUser(30, "female", <<0>>, <<10>>, FALSE)) @@
    (2 :> NewUser(30, "female", <<48>>, <<2>>, FALSE)) @@
    (3 :> NewUser(30, "female", <<48>>, Null, FALSE)) @@
    (4 :> NewUser(30, "male", <<48>>, <<2>>, FALSE)) @@
    (5 :> NewUser(30, "male", Null, Null, FALSE)) @@
    (6 :> NewUser(30, "male", Null, <<2>>, FALSE))

GeoRequesters == {1, 2, 3}

InitGeo ==
    /\ users = GeoUsers
    /\ responses = [u \in DOMAIN GeoUsers |-> Halves(5, 1)]
    /\ choices = {}
    /\ selections = {}
    /\ cache = {}
    /\ now = 0
    /\ procs = <<>>
    /\ resp = [op |-> "none"]
    /\ okToday = [u \in DOMAIN GeoUsers |-> 0]
    /\ shown = [u \in DOMAIN GeoUsers |-> None]
    /\ generated = [u \in DOMAIN GeoUsers |-> None]
    /\ presented = [u \in DOMAIN GeoUsers |-> {}]

NextGeo ==
    \/ \E user_id \in GeoRequesters : get_daily_selection(user_id)
    \/ generate_new_selection(1)
    \/ Tick(MaxNowGeo, {1})

SpecGeo == InitGeo /\ [][NextGeo]_vars

\* one request at a time, running statement by statement, which may fail
InitSelFail ==
    /\ users = MixUsers
    /\ responses = DeleteResponses
    /\ choices = {}
    /\ selections = {}
    /\ cache = {}
    /\ now = 0
    /\ procs = [p \in {1} |-> Idle]
    /\ resp = [op |-> "none"]
    /\ okToday = [u \in DOMAIN MixUsers |-> 0]
    /\ shown = [u \in DOMAIN MixUsers |-> None]
    /\ generated = [u \in DOMAIN MixUsers |-> None]
    /\ presented = [u \in DOMAIN MixUsers |-> {}]

NextSelFail ==
    \/ \E user_id \in {1, UnknownId}, op \in {"daily_selection", "generate_selection"} :
          selection_begin(1, op, user_id)
    \/ selection_generate(1)
    \/ selection_delete(1)
    \/ selection_commit(1)
    \/ selection_fail(1)
    \/ selection_answered(1)
    \/ Tick(MaxNowMix, {1})

SpecSelFail == InitSelFail /\ [][NextSelFail]_vars

\* the scoring population with one user who has not answered yet
HitResponses == (1 :> Ones) @@ (2 :> Fives) @@ (3 :> <<>>)

HitPairs == {<<1, 2>>, <<2, 1>>, <<1, 3>>, <<3, 2>>, <<3, 3>>}

InitHit ==
    /\ users = CacheUsers
    /\ responses = HitResponses
    /\ choices = {}
    /\ selections = {}
    /\ cache = {}
    /\ now = 0
    /\ procs = <<>>
    /\ resp = [op |-> "none"]
    /\ okToday = [u \in DOMAIN CacheUsers |-> 0]
    /\ shown = [u \in DOMAIN CacheUsers |-> None]
    /\ generated = [u \in DOMAIN CacheUsers |-> None]
    /\ presented = [u \in DOMAIN CacheUsers |-> {}]

NextHit ==
    \/ \E pair \in HitPairs : calculate_compatibility(pair[1], pair[2])
    \/ \E questionnaire \in {Questionnaire(TwoOnes), Questionnaire(<<3, 3, 3, 3, 3>>)} :
          submit_personality_questionnaire(3, questionnaire)
    \/ Tick(MaxNowCache, {1})

SpecHit == InitHit /\ [][NextHit]_vars

\* two users who choose, are listed and change their subscription
MaxNowFlag == 2

FlagUsers ==
    (1 :> NewUser(29, "female", Null, Null, FALSE)) @@
    (2 :> NewUser(30, "male", Null, Null, FALSE))

InitFlag ==
    /\ users = FlagUsers
    /\ responses = [u \in DOMAIN FlagUsers |-> Halves(5, 1)]
    /\ choices = {}
    /\ selections = {}
    /\ cache = {}
    /\ now = 0
    /\ procs = <<>>
    /\ resp = [op |-> "none"]
    /\ okToday = [u \in DOMAIN FlagUsers |-> 0]
    /\ shown = [u \in DOMAIN FlagUsers |-> None]
    /\ generated = [u \in DOMAIN FlagUsers |-> None]
    /\ presented = [u \in DOMAIN FlagUsers |-> {}]

NextFlag ==
    \/ \E pair \in {<<1, 2>>, <<2, 1>>} : make_user_choice(pair[1], pair[2])
    \/ get_daily_selection(1)
    \/ generate_new_selection(1)
    \/ \E user_id \in {2, UnknownId}, is_premium \in BOOLEAN :
          update_premium_status(user_id, is_premium)
    \/ Tick(MaxNowFlag, {1})

SpecFlag == InitFlag /\ [][NextFlag]_vars

----------------------------------------------------------------------------
(* Claims on the sequential choice recorder *)

ChoicesOn(user_id, day) ==
    {r \in choices : r.user_id = user_id /\ Day(r.choice_date) = day}

ChoiceDays == {Day(r.choice_date) : r \in choices}

\* C1: for every user and every UTC day, the number of Choice rows of that
\* chooser dated on that day is at most the chooser's quota (1 standard, 3 premium).
C1_QuotaNeverExceeded ==
    \A u \in DOMAIN users : \A d \in ChoiceDays :
        Cardinality(ChoicesOn(u, d)) <= max_choices(users[u])

\* a premium chooser has filled the quota of a day and was then refused
C1_Witness ==
    /\ resp.op = "user_choice" /\ resp.status = 429 /\ resp.user_id = 1
    /\ Cardinality(ChoicesOn(1, Day(now))) = PremiumChoices

\* C3: within one UTC day a recordChoice of a chooser (chosen user resolving)
\* is answered 200 while fewer than quota calls of that chooser succeeded that
\* day, and 429 exactly when quota calls already succeeded: the standard
\* user's 2nd call and the premium user's 4th call fail.
C3_QuotaOutcome ==
    (resp.op = "user_choice" /\ Day(resp.at) = Day(now) /\ resp.status # 404) =>
        /\ resp.status = 200 =>
              okToday[resp.user_id] \in 1..max_choices(users[resp.user_id])
        /\ resp.status = 429 =>
              okToday[resp.user_id] = max_choices(users[resp.user_id])
        /\ resp.status \in {200, 429}

\* the premium user's 4th call of the day is refused after the standard
\* user's single call went through
C3_Witness ==
    /\ resp.op = "user_choice" /\ resp.status = 429 /\ resp.user_id = 1
    /\ Day(resp.at) = Day(now)
    /\ okToday[1] = 3 /\ okToday[2] = 1
    /\ \E r \in choices : r.user_id = 1 /\ r.chosen_user_id = 1

RowsFromTo(a, b) == {r \in choices : r.user_id = a /\ r.chosen_user_id = b}

\* C4: whenever a Choice row A->B and a Choice row B->A both exist, every
\* row A->B and every row B->A has matched = true.
C4_BothDirectionsMatched ==
    \A a \in DOMAIN users : \A b \in DOMAIN users \ {a} :
        (RowsFromTo(a, b) # {} /\ RowsFromTo(b, a) # {}) =>
            \A r \in RowsFromTo(a, b) \cup RowsFromTo(b, a) : r.is_match


----------------------------------------------------------------------------
(* Claims on concurrent recordChoice requests *)

Answered(p) == procs[p].pc = "done" /\ procs[p].op = "user_choice"

\* C2: two concurrent recordChoice calls of one chooser that both read the
\* quota count while exactly one slot remains are not both answered 200:
\* at most one inserts a row.
C2_OneSlotOneInsert ==
    \A p \in Procs : \A q \in Procs \ {p} :
        (/\ Answered(p) /\ Answered(q)
         /\ procs[p].status # 404 /\ procs[q].status # 404
         /\ procs[p].user_id = procs[q].user_id
         /\ procs[p].today_choices = max_choices(users[procs[p].user_id]) - 1
         /\ procs[q].today_choices = procs[p].today_choices)
        => ~(procs[p].status = 200 /\ procs[q].status = 200)

\* C5: when recordChoice(A,B) and recordChoice(B,A) run concurrently and both
\* succeed, the A->B row and the B->A row both end with matched = true.
C5_ConcurrentMutualMatch ==
    \A p \in Procs : \A q \in Procs \ {p} :
        (/\ Answered(p) /\ Answered(q)
         /\ procs[p].status = 200 /\ procs[q].status = 200
         /\ procs[p].user_id = procs[q].chosen_user_id
         /\ procs[p].chosen_user_id = procs[q].user_id
         /\ procs[p].user_id # procs[q].user_id
         /\ Cardinality(RowsFromTo(procs[p].user_id, procs[q].user_id)) = 1
         /\ Cardinality(RowsFromTo(procs[q].user_id, procs[p].user_id)) = 1)
        => \A r \in choices : r.is_match


----------------------------------------------------------------------------
(* Claims on the daily selection, sequential requests *)

Ranked(list) == {<<list[i].user_id, list[i].compatibility_score, list[i].rank_position>> :
                    i \in 1..Len(list)}

RankedRows(rows) == {<<r.candidate_user_id, r.compatibility_score, r.rank_position>> :
                        r \in rows}

\* C8: the rows stored for (user, today) are exactly the list the most recent
\* generation of today returned: nothing of an earlier list of the day is
\* left, no candidate and no rank position occurs twice.
C8_StoredIsLastGenerated ==
    \A u \in DOMAIN users :
        (generated[u] # None /\ generated[u].day = Day(now)) =>
            LET rows == today_selections(u, now)
                list == generated[u].candidates
            IN  /\ RankedRows(rows) = Ranked(list)
                /\ Cardinality(rows) = Len(list)
                /\ \A r1 \in rows : \A r2 \in rows :
                      (r1.candidate_user_id = r2.candidate_user_id
                       \/ r1.rank_position = r2.rank_position) => r1 = r2
                /\ \A r \in rows : r.rank_position \in 1..Len(list)

\* a forced regeneration has replaced the five rows of the day's first list
C8_Witness ==
    /\ resp.op = "generate_selection" /\ resp.status = 200 /\ resp.user_id = 1
    /\ generated[1] # None /\ generated[1].day = Day(now)
    /\ Len(generated[1].candidates) = 1
    /\ Cardinality(presented[1]) = 6
    /\ Cardinality(today_selections(1, now)) = 1

IsSelectionResponse ==
    resp.op \in {"daily_selection", "generate_selection"} /\ resp.status = 200

\* C10: every list returned by generate_daily_selection or get_today_selection
\* has at most MAX_DAILY_PROFILES candidates, with scores non-increasing in
\* list order.
C10_AtMostFiveSorted ==
    IsSelectionResponse =>
        /\ Len(resp.candidates) <= MAX_DAILY_PROFILES
        /\ \A i \in 1..Len(resp.candidates) : \A j \in 1..Len(resp.candidates) :
              i < j => FloatGe(resp.candidates[i].compatibility_score,
                               resp.candidates[j].compatibility_score)

\* six candidates qualify, five are returned, the best and the last differ in score
C10_Witness ==
    /\ IsSelectionResponse
    /\ Len(resp.candidates) = MAX_DAILY_PROFILES
    /\ FloatLt(resp.candidates[5].compatibility_score,
               resp.candidates[1].compatibility_score)
    /\ Cardinality({c \in DOMAIN users :
            FloatGe(_cosine_similarity(responses[1], responses[c]),
                    COMPATIBILITY_THRESHOLD)} \ {1}) = 6


----------------------------------------------------------------------------
(* Claims on the daily selection among other requests *)

\* C6: a getOrGenerate response for a user equals the list the first
\* getOrGenerate of that UTC day returned to that user since the last forced
\* regeneration: same candidates, scores and ranks in the same order,
\* whatever other requests were served in between.
C6_SameListAllDay ==
    (resp.op = "daily_selection" /\ resp.status = 200) =>
        LET first == shown[resp.user_id]
        IN  (first # None /\ first.day = Day(resp.at)) =>
                resp.candidates = first.candidates

\* C7: a newly generated selection for a user holds no candidate the user
\* chose within the last 30 days and no candidate that a selection generated
\* for the user within the last 7 days held.
C7_ExcludedNeverReappear ==
    [][(selections' # selections) =>
          LET u == resp'.user_id
              list == generated'[u].candidates
          IN  \A i \in 1..Len(list) :
                 /\ ~\E r \in choices :
                       /\ r.user_id = u
                       /\ r.chosen_user_id = list[i].user_id
                       /\ r.choice_date > now - Days(ChosenDays)
                 /\ ~\E p \in presented[u] :
                       /\ p[1] = list[i].user_id
                       /\ p[2] > now - Days(SelectionDays)]_vars


----------------------------------------------------------------------------
(* Claims on the daily selection, two requests in flight *)

Generated(p) == procs[p].pc = "done" /\ procs[p].status = 200 /\ procs[p].generates

\* C9: after two generate calls for the same user on the same day, their
\* delete, insert and commit steps interleaved, have both committed, the
\* rows of (user, day) hold no rank position twice and are the rows of
\* exactly one of the two computed lists.
C9_ConcurrentGenerateOneList ==
    \A p \in Procs : \A q \in Procs \ {p} :
        (/\ Generated(p) /\ Generated(q)
         /\ procs[p].user_id = procs[q].user_id
         /\ procs[p].selection_date = procs[q].selection_date)
        => LET rows == {r \in selections : /\ r.user_id = procs[p].user_id
                                           /\ r.selection_date = procs[p].selection_date}
           IN  /\ \A r1 \in rows : \A r2 \in rows :
                     r1.rank_position = r2.rank_position => r1 = r2
               /\ \E w \in {p, q} :
                     /\ RankedRows(rows) = Ranked(procs[w].candidates)
                     /\ Cardinality(rows) = Len(procs[w].candidates)


----------------------------------------------------------------------------
(* Claims on the ranks of the lists answered *)

\* C11: every selection list answered, generated or read back, after any
\* other requests including the deletion of a candidate's account, carries
\* the rank positions 1, 2, ..., k in list order.
C11_RanksOneToK ==
    IsSelectionResponse =>
        \A i \in 1..Len(resp.candidates) : resp.candidates[i].rank_position = i


----------------------------------------------------------------------------
(* Claims on the minimum size of a generated list *)

\* the candidates the scoring loop of a generation for user_id goes through
ScoredIds(user_id) == EligibleIds(users[user_id], _get_excluded_user_ids(user_id, now))

ScoreOf(user_id, candidate) ==
    calculate_compatibility_score(cache, user_id, candidate, now).score

QualifyingIds(user_id) ==
    {c \in ScoredIds(user_id) : FloatGe(ScoreOf(user_id, c), COMPATIBILITY_THRESHOLD)}

\* C12: a generation that scores at least MIN_DAILY_PROFILES candidates of
\* which fewer than MIN_DAILY_PROFILES reach the threshold returns the
\* MIN_DAILY_PROFILES best of all scored candidates; one that scores fewer
\* returns the candidates available.
C12_MinimumFallback ==
    [][\A u \in DOMAIN users :
          (generated'[u] # generated[u]) =>
             LET list == generated'[u].candidates
                 ids == {list[i].user_id : i \in 1..Len(list)}
             IN  /\ (/\ Cardinality(QualifyingIds(u)) < MIN_DAILY_PROFILES
                     /\ Cardinality(ScoredIds(u)) >= MIN_DAILY_PROFILES)
                    => /\ Len(list) = MIN_DAILY_PROFILES
                       /\ ids \subseteq ScoredIds(u)
                       /\ \A c \in ids : \A o \in ScoredIds(u) \ ids :
                             FloatGe(ScoreOf(u, c), ScoreOf(u, o))
                 /\ Cardinality(ScoredIds(u)) < MIN_DAILY_PROFILES
                    => QualifyingIds(u) \subseteq ids /\ ids \subseteq ScoredIds(u)]_vars


----------------------------------------------------------------------------
(* Claims on the compatibility cache, sequential requests *)

\* C13: after any sequence of sequential score calculations, in any argument
\* order, the cache holds at most one row per unordered pair of users and
\* every row has user1_id <= user2_id.
C13_OneCanonicalRowPerPair ==
    /\ \A r \in cache : r.user1_id <= r.user2_id
    /\ \A r1 \in cache : \A r2 \in cache :
          {r1.user1_id, r1.user2_id} = {r2.user1_id, r2.user2_id} => r1 = r2

\* a call with the larger id first has replaced the stale entry of its pair
C13_Witness ==
    /\ resp.op = "compatibility" /\ resp.status = 200 /\ resp.at = now
    /\ resp.user1_id > resp.user2_id
    /\ resp.entries_before # {}
    /\ \A r \in resp.entries_before : r.calculated_at < now
    /\ \E r \in cache_entries(cache, resp.user1_id, resp.user2_id) : r.calculated_at = now
    /\ Cardinality(cache) = 3

\* C14: when two writes of the cache for one canonical pair race, the last
\* write wins: once both requests are answered the cache holds exactly one
\* row for the pair, and it holds the score both computations produced.
C14_RaceLastWriteWins ==
    (/\ \A p \in Procs : /\ procs[p].pc = "done"
                         /\ procs[p].status = 200
                         /\ procs[p].wrote
     /\ CanonicalPair(procs[1].user1_id, procs[1].user2_id)
            = CanonicalPair(procs[2].user1_id, procs[2].user2_id))
    => /\ Cardinality(cache_entries(cache, procs[1].user1_id, procs[1].user2_id)) = 1
       /\ \A r \in cache_entries(cache, procs[1].user1_id, procs[1].user2_id) :
             /\ r.compatibility_score = procs[1].compatibility_score
             /\ r.compatibility_score = procs[2].compatibility_score

\* the entries a compatibility-score call found whose age is below 24 hours
YoungerThanTtl(entries, t) == {r \in entries : t - r.calculated_at < Hours(CacheHours)}

\* the response of a compatibility-score call for two known users, just made
Scored == resp.op = "compatibility" /\ resp.status = 200 /\ resp.at = now

\* C15: a call that finds an entry younger than 24 hours returns its score
\* and leaves the entry alone; a call that finds only entries 24 hours old
\* or older returns the score of the stored vectors and leaves one entry for
\* the pair, stamped with the time of the call.
C15_CachedOnlyWithinTtl ==
    Scored =>
        /\ YoungerThanTtl(resp.entries_before, resp.at) # {} =>
              /\ \E r \in YoungerThanTtl(resp.entries_before, resp.at) :
                    resp.compatibility_score = r.compatibility_score
              /\ cache_entries(cache, resp.user1_id, resp.user2_id) = resp.entries_before
        /\ (resp.entries_before # {} /\ YoungerThanTtl(resp.entries_before, resp.at) = {}) =>
              /\ resp.compatibility_score =
                    _cosine_similarity(_get_personality_vector(resp.user1_id),
                                       _get_personality_vector(resp.user2_id))
              /\ Cardinality(cache_entries(cache, resp.user1_id, resp.user2_id)) = 1
              /\ \A r \in cache_entries(cache, resp.user1_id, resp.user2_id) :
                    /\ r.calculated_at = resp.at
                    /\ r.compatibility_score = resp.compatibility_score

\* an entry exactly 24 hours old was replaced by a different score
C15_Witness ==
    /\ Scored
    /\ resp.entries_before # {}
    /\ \A r \in resp.entries_before :
          /\ resp.at - r.calculated_at = Hours(CacheHours)
          /\ r.compatibility_score # resp.compatibility_score
    /\ \E r \in cache_entries(cache, resp.user1_id, resp.user2_id) :
          r.calculated_at = resp.at

\* _cosine_similarity gives one value for a pair of vectors in either order
CosineSymmetric ==
    \A x \in CosineVectors : \A y \in CosineVectors :
        _cosine_similarity(x, y) = _cosine_similarity(y, x)

\* C16: in every state calculate_compatibility_score(a, b) and
\* calculate_compatibility_score(b, a) return the same value, for known and
\* unknown users, and _cosine_similarity(x, y) = _cosine_similarity(y, x).
C16_ScoreSymmetric ==
    /\ \A a \in DOMAIN users \cup {UnknownId} : \A b \in DOMAIN users \cup {UnknownId} :
          calculate_compatibility_score(cache, a, b, now).score
              = calculate_compatibility_score(cache, b, a, now).score
    /\ CosineSymmetric

\* a call with the larger id first was answered from the entry of the pair,
\* whose score is no longer the cosine of the stored vectors
C16_Witness ==
    /\ Scored
    /\ resp.user1_id > resp.user2_id
    /\ YoungerThanTtl(resp.entries_before, resp.at) # {}
    /\ resp.compatibility_score #
          _cosine_similarity(_get_personality_vector(resp.user1_id),
                             _get_personality_vector(resp.user2_id))

\* the response just made is for a user answering 1 to everything and a user
\* answering 5 to everything, in either order
OnesAgainstFives ==
    /\ Scored
    /\ {_get_personality_vector(resp.user1_id),
        _get_personality_vector(resp.user2_id)} = {Ones, Fives}

Half == FloatDiv(1, FloatOfInt(2))

\* C18: for two users of whom one answers 1 and the other 5 to all ten
\* questions, calculate_compatibility_score returns a value in [0.0, 1.0]
\* that is strictly below 0.5.
C18_OppositeAnswersScoreLow ==
    (OnesAgainstFives /\ resp.entries_before = {})
        => /\ FloatGe(resp.compatibility_score, Zero)
           /\ FloatGe(One, resp.compatibility_score)
           /\ FloatLt(resp.compatibility_score, Half)

----------------------------------------------------------------------------
(* Claims on the values of the cosine *)

Negated(vec) == [i \in 1..Len(vec) |-> 0 - vec[i]]

Magnitude0(vec) == Dot(vec, vec) = 0

\* C19: _cosine_similarity returns 0.0 when the lengths differ or a vector
\* has zero magnitude, and otherwise 1.0 for two identical vectors, 0.0 for
\* orthogonal vectors and -1.0 for a vector and its negation.
C19_CosineLandmarks ==
    resp.op = "cosine" =>
        IF Len(resp.vec1) # Len(resp.vec2) \/ Magnitude0(resp.vec1) \/ Magnitude0(resp.vec2)
        THEN resp.similarity = Zero
        ELSE /\ resp.vec1 = resp.vec2 => resp.similarity = One
             /\ Dot(resp.vec1, resp.vec2) = 0 => resp.similarity = Zero
             /\ resp.vec2 = Negated(resp.vec1) => resp.similarity = FloatOfInt(-1)

\* C20: for two existing users with complete questionnaires the score the
\* compatibility-score operation returns lies in [0.0, 1.0].
C20_ScoreInUnitInterval ==
    (/\ Scored
     /\ resp.user1_id # resp.user2_id
     /\ _get_personality_vector(resp.user1_id) # None
     /\ _get_personality_vector(resp.user2_id) # None)
        => /\ FloatGe(resp.compatibility_score, Zero)
           /\ FloatGe(One, resp.compatibility_score)

----------------------------------------------------------------------------
(* Claims on the failures of the requests *)

ChoiceAnswered == resp.op = "user_choice"

\* C21: recordChoice is answered 404 exactly when the chooser id or the
\* chosen id is not a stored user, and a step that ends in a 404 or 429
\* answer leaves the Choice rows, match flags included, as they were.
C21_FailedChoiceChangesNothing ==
    /\ [](ChoiceAnswered =>
            (resp.status = 404 <=>
                (resp.user_id \notin DOMAIN users \/ resp.chosen_user_id \notin DOMAIN users)))
    /\ [][(resp'.op = "user_choice" /\ resp'.status \in {404, 429}) => choices' = choices]_vars

\* a chooser with quota left names an unknown user and is answered 404;
\* the chooser's earlier choice, still unmatched, is in the store
C21_Witness ==
    /\ ChoiceAnswered /\ resp.status = 404 /\ resp.at = now
    /\ resp.user_id \in DOMAIN users /\ resp.chosen_user_id \notin DOMAIN users
    /\ ~limit_exceeded(resp.user_id, now)
    /\ \E r \in choices : r.user_id = resp.user_id /\ ~r.is_match

Rejected == resp.op = "personality" /\ resp.status = 400

\* C22: a rejected questionnaire submission leaves every stored vector as it
\* was; a vector changes only in an accepted submission for its user, which
\* replaces it whole; every stored vector has 0 or 10 responses, each in 1..5.
C22_VectorReplacedWholesale ==
    /\ [](\A u \in DOMAIN responses :
            /\ Len(responses[u]) \in {0, 10}
            /\ \A i \in 1..Len(responses[u]) : responses[u][i] \in 1..5)
    /\ [][(resp'.op = "personality" /\ resp'.status # 200) => responses' = responses]_vars
    /\ [][responses' # responses =>
            /\ resp'.op = "personality" /\ resp'.status = 200
            /\ Len(responses'[resp'.user_id]) = 10
            /\ \A u \in DOMAIN responses \ {resp'.user_id} : responses'[u] = responses[u]]_vars

\* a submission for user 1 was rejected; the vector stored for user 1 is the
\* one an earlier accepted submission put in the place of the first
C22_Witness ==
    /\ Rejected /\ resp.user_id = 1
    /\ responses[1] = TwoOnes
    /\ responses[2] = <<3, 3, 3, 3, 3, 3, 3, 3, 3, 3>>

----------------------------------------------------------------------------
(* Claims on requesters and candidates without answers *)

\* a list was answered just now to a stored user
ListAnswered ==
    /\ resp.op \in {"daily_selection", "generate_selection"}
    /\ resp.status = 200 /\ resp.at = now

\* C23: a stored user without personality responses is answered 200 with an
\* empty candidate list by the daily-selection operation, however many
\* eligible candidates there are; nothing is stored for the day.
C23_NoAnswersEmptyList ==
    /\ (ListAnswered /\ responses[resp.user_id] = <<>>)
          => (resp.candidates = <<>> /\ today_selections(resp.user_id, now) = {})
    /\ (resp.op \in {"daily_selection", "generate_selection"} /\ resp.user_id \in DOMAIN users)
          => resp.status = 200

\* the requester without answers got the empty list while two candidates,
\* both with answers by now, pass the filter
C23_Witness ==
    /\ ListAnswered /\ resp.op = "daily_selection"
    /\ responses[resp.user_id] = <<>>
    /\ resp.candidates = <<>>
    /\ Cardinality({c \in ScoredIds(resp.user_id) : _get_personality_vector(c) # None}) = 2

----------------------------------------------------------------------------
(* Claims on the ad hoc ranking *)

\* C24: the ad hoc ranking answers at most 10 candidates for every
\* max_results of the caller (0, negative and above 10 included), with ranks
\* 1..k and scores that never increase along the list.
C24_AtMostTenRanked ==
    (resp.op = "matching_candidates" /\ resp.status = 200) =>
        /\ Len(resp.candidates) <= ResultsCap
        /\ \A i \in 1..Len(resp.candidates) : resp.candidates[i].rank_position = i
        /\ \A i \in 1..(Len(resp.candidates) - 1) :
              FloatGe(resp.candidates[i].compatibility_score,
                      resp.candidates[i + 1].compatibility_score)

----------------------------------------------------------------------------
(* Claims on account deletion *)

\* C25: after delete_user(u) has succeeded the store holds nothing of u: no
\* personality responses of u, no Choice row with u as chooser or chosen, no
\* DailySelection row with u as owner or candidate, no cache row with u.
C25_DeleteLeavesNothing ==
    (resp.op = "delete_user" /\ resp.status = 200) =>
        /\ resp.user_id \notin DOMAIN users
        /\ resp.user_id \notin DOMAIN responses
        /\ owned_rows(resp.user_id) = {}
        /\ referencing_rows(resp.user_id) = {}

----------------------------------------------------------------------------
(* Claims on the eligibility of the candidates *)

\* the step generates a list: POST /generate-selection, or GET /daily-selection
\* finding no row for today
GenerationStep ==
    /\ now' = now
    /\ resp'.op \in {"daily_selection", "generate_selection"}
    /\ resp'.status = 200
    /\ (resp'.op = "generate_selection" \/ today_selections(resp'.user_id, now) = {})

\* C26: every candidate c of a list generated for u passes all rules in the
\* store the generation started from: c is active, c # u, c is not in the
\* excluded ids of u, the genders differ, and the ages differ by at most 10.
C26_GeneratedAreEligible ==
    [][GenerationStep =>
        \A i \in 1..Len(resp'.candidates) :
            /\ resp'.candidates[i].user_id \in DOMAIN users
            /\ users[resp'.candidates[i].user_id].is_active
            /\ resp'.candidates[i].user_id # resp'.user_id
            /\ resp'.candidates[i].user_id \notin _get_excluded_user_ids(resp'.user_id, now)
            /\ users[resp'.candidates[i].user_id].gender # users[resp'.user_id].gender
            /\ Abs(users[resp'.candidates[i].user_id].age - users[resp'.user_id].age)
                  <= AgeRange]_vars

\* a list generated while candidate 2 was chosen less than 30 days ago: it
\* holds the candidates whose ages differ by exactly 10 and not candidate 2
C26_Witness ==
    /\ ListAnswered /\ resp.op = "generate_selection"
    /\ {resp.candidates[i].user_id : i \in 1..Len(resp.candidates)} = {5, 6}
    /\ \E r \in choices : r.user_id = 1 /\ r.chosen_user_id = 2
                          /\ r.choice_date > now - Days(ChosenDays)

HasCoordinates(user) ==
    IsNotNone(user.location_latitude) /\ IsNotNone(user.location_longitude)

Listed(list) == {list[i].user_id : i \in 1..Len(list)}

\* the users who pass every rule but the one on coordinates
EligibleButCoordinates(user_id) ==
    {id \in DOMAIN users :
        /\ id \notin _get_excluded_user_ids(user_id, now)
        /\ users[id].is_active
        /\ users[id].gender # users[user_id].gender
        /\ Abs(users[id].age - users[user_id].age) <= AgeRange}

\* C27: when the requester has both coordinates set, whatever their values
\* (0 included), every candidate of a generated list has both coordinates
\* set; when the requester lacks a coordinate, no candidate is dropped for
\* its coordinates (all candidates here reach the threshold and fit the list).
C27_CoordinatesRule ==
    [][GenerationStep =>
        IF HasCoordinates(users[resp'.user_id])
        THEN \A c \in Listed(resp'.candidates) : HasCoordinates(users[c])
        ELSE EligibleButCoordinates(resp'.user_id) \subseteq Listed(resp'.candidates)]_vars

----------------------------------------------------------------------------
(* Claims on the order of a generated list *)

\* C28: a generated list is in score-descending order and candidates of equal
\* score stand in ascending order of their ids, so that the list does not
\* depend on the order in which the store returns the eligible users.
C28_TiesByAscendingId ==
    [][GenerationStep =>
        \A i \in 1..(Len(resp'.candidates) - 1) :
            \/ FloatLt(resp'.candidates[i + 1].compatibility_score,
                       resp'.candidates[i].compatibility_score)
            \/ /\ resp'.candidates[i + 1].compatibility_score
                     = resp'.candidates[i].compatibility_score
               /\ resp'.candidates[i].user_id < resp'.candidates[i + 1].user_id]_vars

----------------------------------------------------------------------------
(* Claims on pairings with an incomplete vector *)

Incomplete(user_id) == Len(responses[user_id]) # PERSONALITY_QUESTIONS_COUNT

\* C29: in a generation a pairing whose requester or candidate has an
\* incomplete vector scores 0.0, is not listed and writes no cache row, and
\* the generation goes on: it is answered 200 and the other candidates are
\* listed exactly when their score reaches the threshold.
C29_IncompleteScoresZero ==
    [][GenerationStep =>
        \A c \in ScoredIds(resp'.user_id) :
            IF Incomplete(resp'.user_id) \/ Incomplete(c)
            THEN /\ ScoreOf(resp'.user_id, c) = Zero
                 /\ c \notin Listed(resp'.candidates)
                 /\ cache_entries(cache', resp'.user_id, c) = {}
            ELSE c \in Listed(resp'.candidates)
                    <=> FloatGe(ScoreOf(resp'.user_id, c), COMPATIBILITY_THRESHOLD)]_vars

\* a requester with answers was listed candidate 2 while candidate 3, who
\* passes the filter, has no answers
C29_Witness ==
    /\ ListAnswered /\ resp.op = "generate_selection"
    /\ ~Incomplete(resp.user_id)
    /\ Listed(resp.candidates) = {2}
    /\ Incomplete(3)
    /\ users[3].gender # users[resp.user_id].gender
    /\ \A r \in selections : r.candidate_user_id # 3
    /\ cache_entries(cache, resp.user_id, 3) = {}

----------------------------------------------------------------------------
(* Claims on generations that fail *)

\* the rows of the table that are not rows of user_id dated on the day of t
RowsElsewhere(sel, user_id, t) ==
    {r \in sel : ~(r.user_id = user_id /\ Day(r.selection_date) = Day(t))}

\* C30: a generation that fails before its final commit leaves the
\* DailySelection rows as they were, and the table only ever changes in the
\* final commit of a generation, which leaves for (user, day) exactly the
\* rows of the whole generated list and touches no other rows: no deleted
\* but not replaced list and no part of a list is ever committed.
C30_GenerationAllOrNothing ==
    /\ [][(procs'[1].pc = "done" /\ procs'[1].status = 500) =>
             selections' = selections]_vars
    /\ [][selections' # selections =>
             /\ procs[1].pc = "commit"
             /\ procs'[1].pc = "done" /\ procs'[1].status = 200
             /\ RankedRows({r \in selections' :
                     /\ r.user_id = procs'[1].user_id
                     /\ Day(r.selection_date) = Day(procs'[1].selection_date)})
                  = Ranked(procs'[1].candidates)
             /\ Cardinality({r \in selections' :
                     /\ r.user_id = procs'[1].user_id
                     /\ Day(r.selection_date) = Day(procs'[1].selection_date)})
                  = Len(procs'[1].candidates)
             /\ RowsElsewhere(selections', procs'[1].user_id, procs'[1].selection_date)
                  = RowsElsewhere(selections, procs'[1].user_id,
                                  procs'[1].selection_date)]_vars

\* a regeneration failed after its DELETE and before its commit; the list
\* stored earlier the same day is still there
C30_Witness ==
    /\ procs[1].pc = "done" /\ procs[1].status = 500
    /\ procs[1].failed_at = "commit"
    /\ procs[1].op = "generate_selection"
    /\ Cardinality(today_selections(procs[1].user_id, now)) = 2

----------------------------------------------------------------------------
(* Claims on requests of unknown users *)

SelectionRequested == resp.op \in {"daily_selection", "generate_selection"}

\* C31: a daily-selection request, read or forced generation, for a user id
\* that is not in the users table is answered 404 "User not found", and the
\* step that answers it changes neither the DailySelection rows nor the cache
\* rows.
C31_UnknownUserNoWrites ==
    /\ [](SelectionRequested =>
            (resp.status = 404 <=> resp.user_id \notin DOMAIN users))
    /\ [][(resp'.op \in {"daily_selection", "generate_selection"}
             /\ resp'.user_id \notin DOMAIN users) =>
             (selections' = selections /\ cache' = cache)]_vars

\* a forced generation for an unknown id is refused while lists and cached
\* scores of a known user are stored
C31_Witness ==
    /\ resp.op = "generate_selection" /\ resp.status = 404
    /\ resp.user_id = UnknownId /\ resp.at = now
    /\ today_selections(1, now) # {}
    /\ cache # {}

----------------------------------------------------------------------------
(* Claims on scores and the answers they are computed from *)

\* C32: the score returned for two users with complete vectors is the cosine
\* similarity of the vectors stored for them at the time of the call, also
\* when one of them has resubmitted the questionnaire since the pair was
\* last scored.
C32_ScoreOfStoredVectors ==
    (/\ Scored
     /\ ~Incomplete(resp.user1_id)
     /\ ~Incomplete(resp.user2_id)) =>
        resp.compatibility_score =
            _cosine_similarity(_get_personality_vector(resp.user1_id),
                               _get_personality_vector(resp.user2_id))

\* a compatibility-score call for two known users is answered in this step
ScoringStep == resp'.op = "compatibility" /\ resp'.status = 200 /\ now' = now

\* C33: a call that finds an entry of the pair younger than 24 hours returns
\* its score, a call that finds none and a user without a complete vector
\* returns 0.0, and both leave the cache table exactly as it was: the entry
\* keeps its timestamp and no row is written for the 0.0.
C33_HitAndBlankLeaveCache ==
    [][ScoringStep =>
          /\ YoungerThanTtl(cache_entries(cache, resp'.user1_id, resp'.user2_id), now) # {} =>
                /\ cache' = cache
                /\ \E r \in YoungerThanTtl(cache_entries(cache, resp'.user1_id,
                                                          resp'.user2_id), now) :
                      resp'.compatibility_score = r.compatibility_score
          /\ (/\ YoungerThanTtl(cache_entries(cache, resp'.user1_id, resp'.user2_id),
                                now) = {}
              /\ (Incomplete(resp'.user1_id) \/ Incomplete(resp'.user2_id))) =>
                /\ cache' = cache
                /\ resp'.compatibility_score = Zero]_vars

\* a call was answered from an entry written earlier, which keeps its
\* timestamp, while a pair with a user without answers has no row
C33_Witness ==
    /\ Scored
    /\ resp.entries_before # {}
    /\ \A r \in resp.entries_before :
          r.calculated_at < resp.at /\ r.compatibility_score = resp.compatibility_score
    /\ cache_entries(cache, resp.user1_id, resp.user2_id) = resp.entries_before
    /\ Incomplete(3)
    /\ cache_entries(cache, 1, 3) = {}

----------------------------------------------------------------------------
(* Claims on the match flag and the daily quota *)

\* C34: a choice row with is_match = TRUE stays in the table with
\* is_match = TRUE through every later choice, daily-selection request,
\* generation and premium update.
C34_MatchFlagMonotone ==
    [][\A r \in choices : r.is_match =>
          \E o \in choices' :
             /\ o.id = r.id /\ o.is_match
             /\ o.user_id = r.user_id /\ o.chosen_user_id = r.chosen_user_id]_vars

\* a row matched on an earlier day is still matched after its chooser chose
\* again, a list was generated and a subscription was changed
C34_Witness ==
    /\ resp.op = "premium" /\ resp.status = 200
    /\ selections # {}
    /\ \E r \in choices :
          /\ r.is_match
          /\ Day(r.choice_date) < Day(now)
          /\ \E o \in choices :
                o.user_id = r.user_id /\ o.choice_date > r.choice_date

\* C35: a choice row has is_match = TRUE only if its chooser and its chosen
\* user are two different users and the chosen user has a row choosing the
\* chooser.
C35_MatchedOnlyMutual ==
    \A r \in choices : r.is_match =>
        /\ r.user_id # r.chosen_user_id
        /\ \E o \in choices :
              o.user_id = r.chosen_user_id /\ o.chosen_user_id = r.user_id

\* a choice of a known chooser for a known user is answered in this step
ChoiceStep == resp'.op = "user_choice" /\ resp'.status \in {200, 429} /\ now' = now

\* C36: the quota is counted per UTC day: a choice is refused with 429
\* exactly when the rows of the chooser dated on the UTC day of the call
\* number the chooser's quota or more, whatever rows earlier days hold, and
\* is otherwise recorded with the time of the call; so a chooser whose quota
\* was used up on one day records a choice on the next.
C36_QuotaPerUtcDay ==
    [][ChoiceStep =>
          /\ resp'.status = 429 <=>
                Cardinality(ChoicesOn(resp'.user_id, Day(now)))
                    >= max_choices(users[resp'.user_id])
          /\ resp'.status = 200 =>
                /\ Cardinality(ChoicesOn(resp'.user_id, Day(now)))
                       < max_choices(users[resp'.user_id])
                /\ \E r \in choices' \ choices :
                      /\ r.id = resp'.id /\ r.user_id = resp'.user_id
                      /\ r.choice_date = now]_vars

\* the premium chooser used the three choices of one day and has recorded a
\* choice in the first half of the next
C36_Witness ==
    /\ resp.op = "user_choice" /\ resp.status = 200 /\ resp.at = now
    /\ resp.user_id = 1
    /\ now = Midnight(Day(now)) /\ Day(now) > 0
    /\ Cardinality(ChoicesOn(1, Day(now) - 1)) = max_choices(users[1])
    /\ Cardinality(ChoicesOn(1, Day(now))) = 1

====
